---- MODULE Spec2Model ----
(***************************************************************************)
(* Model of the in-memory job queue (app/services/queue_memory.py) and of  *)
(* the documentation crawl loop (app/services/docs.py).                    *)
(*                                                                         *)
(* Job queue.  The module-level dicts jobs, results and queues are the     *)
(* state.  A job record is a Python dict that process_job keeps a          *)
(* reference to (its local `job`), so records live in a heap (job_dicts)   *)
(* and the job table maps an id to a heap reference.  The thread pool is   *)
(* the list of submitted process_job calls in submission order (executor); *)
(* at most max_workers of them are past their start and not yet done.      *)
(* Every `with lock:` block is one atomic step; the task body runs between *)
(* two such steps.                                                         *)
(*                                                                         *)
(* Crawl.  One call of crawl_documentation: its locals and the module-level *)
(* doc_status dict are the state; the site answers each fetch with one of  *)
(* a few link lists or with an error.                                      *)
(***************************************************************************)
EXTENDS Integers, Sequences, FiniteSets, TLC

\* ------------------------------------------------------------------ bounds
MaxJobs == 2            \* enqueue_job calls in one behaviour of Spec
MaxPoolJobs == 4        \* enqueue_job calls in one behaviour of PoolSpec
MaxClock == 1           \* clock ticks in one behaviour

\* --------------------------------------------------------- program constants
JOB_EXPIRATION == 259200
JOB_STATUS_QUEUED == "queued"
JOB_STATUS_IN_PROGRESS == "in_progress"
JOB_STATUS_COMPLETED == "completed"
JOB_STATUS_FAILED == "failed"
JOB_STATUS_CANCELLED == "cancelled"
QUEUE_DEFAULT == "default"
QUEUE_DOCS == "documentation"
QUEUE_HIGH == "high_priority"
max_workers == 3

\* Python's None, for timestamps (numbers) and for result/error (strings).
NoTime == -1
NoValue == "None"

\* One clock tick is one retention window, so that "exactly at the window"
\* and "past the window" are both reached.
TickStep == JOB_EXPIRATION

\* Inputs of the operations.
QueueInputs == {QUEUE_DOCS, "adhoc"}
DaysInputs == {1, 3}
ResultKeys == {"k1"}
BodyResults == {"r1"}
ErrorMsg == "Error en trabajo"

\* generate_job_id: uuid4 never repeats; the n-th generated id is n.
GeneratedIds == 1..(IF MaxJobs > MaxPoolJobs THEN MaxJobs ELSE MaxPoolJobs)
\* An id no enqueue_job ever produced (for calls on an unknown id).
UnknownId == 0
JobIdInputs == GeneratedIds \cup {UnknownId}

VARIABLES
  jobs,        \* job table: id -> reference into job_dicts
  job_dicts,   \* heap of job records, in creation order
  queues,      \* queue name -> list of job ids
  results,     \* result store: key -> [result, expiration]
  executor,    \* submitted process_job calls, in submission order
  clock,       \* time.time() / datetime.now(), in seconds
  ret,         \* what the last API call returned
  crawl_pc,    \* where crawl_documentation is: idle, loop, fetch, sleep, done
  crawl_args,  \* its arguments: base_url, max_depth, excluded_paths
  pages,       \* normalized url -> page_data
  visited,     \* set of normalized urls
  to_visit,    \* list of (url, depth)
  pages_count,
  current,     \* (current_url, depth) of the iteration in progress
  doc_status,  \* doc_id -> status record
  fetched,     \* the urls fetch_documentation was called with, in call order
  sleeps,      \* history: for each asyncio.sleep that returned, how many fetches had been made
  stored,      \* history: key -> what the last store_result call on it stored, and when
  doc_jobs,    \* endpoints' doc_jobs: url -> job id
  doc_task,    \* keyword arguments the documentation job was enqueued with
  doc_pc,      \* where process_documentation is: idle, started, extract, index, ...
  doc_cache,   \* doc_id -> cached document
  doc_index,   \* doc_id -> search index
  cancelled_docs,  \* history: urls whose DELETE /scrape answered cancelled
  embed_executor,  \* embedding.executor: submitted embedding calls, in submission order
  embed_pc,    \* per pool worker: what its coroutine is doing about embeddings
  chunk_args,  \* arguments of the chunk_text call
  chunks,      \* what the chunk_text call returned
  sim_args,    \* arguments of the search_by_similarity call
  sim_results, \* its top_indices and the list it returned
  doc_embeddings,  \* doc_id -> chunks, texts, page_urls
  doc_indexing,    \* locals of the process_documentation call that is indexing
  search_ret,  \* the last search_in_documentation call: arguments and return value
  lock,        \* queue_memory.lock: the threads that hold it (none or one)
  lock_pc      \* per thread: the queue_memory function it is in, and where

jobvars == <<jobs, job_dicts, queues, results, executor, clock, ret, stored>>
crawlvars == <<crawl_pc, crawl_args, pages, visited, to_visit, pages_count, current,
               doc_status, fetched, sleeps>>
docvars == <<doc_jobs, doc_task, doc_pc, doc_cache, doc_index, cancelled_docs>>
embedvars == <<embed_executor, embed_pc>>
chunkvars == <<chunk_args, chunks>>
searchvars == <<sim_args, sim_results, doc_embeddings, doc_indexing, search_ret>>
lockvars == <<lock, lock_pc>>
\* What queue_memory.py does not touch, and what crawl_documentation does not.
nonjobvars == <<crawlvars, docvars, embedvars, chunkvars, searchvars, lockvars>>
noncrawlvars == <<jobvars, docvars, embedvars, chunkvars, searchvars, lockvars>>
vars == <<jobvars, crawlvars, docvars, embedvars, chunkvars, searchvars, lockvars>>

TerminalStatuses == {JOB_STATUS_COMPLETED, JOB_STATUS_FAILED, JOB_STATUS_CANCELLED}

\* list.remove(x): drops the first occurrence.
RECURSIVE ListRemove(_, _)
ListRemove(s, x) ==
  IF s = <<>> THEN <<>>
  ELSE IF Head(s) = x THEN Tail(s)
  ELSE <<Head(s)>> \o ListRemove(Tail(s), x)

InList(x, s) == \E i \in 1..Len(s) : s[i] = x

\* The executor: calls past their start and not yet returned hold a pool thread.
Running(ex) == {t \in 1..Len(ex) : ex[t].pc = "body"}
Pending(ex) == {t \in 1..Len(ex) : ex[t].pc = "pending"}

NoRet == [op |-> "none"]

\* No crawl_documentation call has been made.
CrawlIdle ==
  /\ crawl_pc = "idle"
  /\ crawl_args = <<>>
  /\ pages = <<>>
  /\ visited = {}
  /\ to_visit = <<>>
  /\ pages_count = 0
  /\ current = <<>>
  /\ doc_status = <<>>
  /\ fetched = <<>>
  /\ sleeps = <<>>

Init ==
  /\ jobs = <<>>
  /\ job_dicts = <<>>
  /\ queues = [q \in {QUEUE_DEFAULT, QUEUE_DOCS, QUEUE_HIGH} |-> <<>>]
  /\ results = <<>>
  /\ executor = <<>>
  /\ clock = 0
  /\ ret = NoRet
  /\ stored = <<>>
  /\ CrawlIdle
  /\ doc_jobs = <<>>
  /\ doc_task = <<>>
  /\ doc_pc = "idle"
  /\ doc_cache = <<>>
  /\ doc_index = <<>>
  /\ cancelled_docs = {}
  /\ embed_executor = <<>>
  /\ embed_pc = [w \in 1..max_workers |-> "idle"]
  /\ chunk_args = <<>>
  /\ chunks = <<>>
  /\ sim_args = <<>>
  /\ sim_results = <<>>
  /\ doc_embeddings = <<>>
  /\ doc_indexing = <<>>
  /\ search_ret = <<>>
  /\ lock = <<>>
  /\ lock_pc = <<>>

\* enqueue_job: what its locked block and executor.submit write.
EnqueueWrites(job_id, queue_name) ==
  LET job == [id |-> job_id, status |-> JOB_STATUS_QUEUED, queue |-> queue_name,
              enqueued_at |-> clock, started_at |-> NoTime, ended_at |-> NoTime,
              result |-> NoValue, error |-> NoValue]
      ref == Len(job_dicts) + 1
      qs == IF queue_name \in DOMAIN queues THEN queues
            ELSE [q \in DOMAIN queues \cup {queue_name} |->
                    IF q = queue_name THEN <<>> ELSE queues[q]]
  IN /\ job_dicts' = Append(job_dicts, job)
     /\ jobs' = [i \in DOMAIN jobs \cup {job_id} |-> IF i = job_id THEN ref ELSE jobs[i]]
     /\ queues' = [qs EXCEPT ![queue_name] = Append(@, job_id)]
     /\ executor' = Append(executor, [job_id |-> job_id, pc |-> "pending", job |-> 0])

\* enqueue_job(func, queue_name=queue_name, job_id=job_id)
enqueue_job(job_id, queue_name) ==
  /\ EnqueueWrites(job_id, queue_name)
  /\ ret' = [op |-> "enqueue_job", job_id |-> job_id]
  /\ UNCHANGED <<results, stored, clock>>
  /\ UNCHANGED nonjobvars

\* enqueue_job without job_id: the id comes from generate_job_id.
EnqueueJob ==
  /\ Len(job_dicts) < MaxJobs
  /\ \E queue_name \in QueueInputs : enqueue_job(Len(job_dicts) + 1, queue_name)

\* The pool's threads take submitted calls oldest first: a waiting call is
\* in a thread's hands when the calls still waiting before it and the calls
\* past their start together leave a thread free.
Taken(ex, t) ==
  /\ t \in Pending(ex)
  /\ Cardinality({p \in Pending(ex) : p < t}) + Cardinality(Running(ex)) < max_workers

\* process_job started without a bound on the pool's threads.
ProcessJobStart_unbounded(t) ==
  /\ t \in Pending(executor)
  /\ LET job_id == executor[t].job_id
     IN IF job_id \notin DOMAIN jobs
        THEN /\ executor' = [executor EXCEPT ![t].pc = "done"]
             /\ UNCHANGED job_dicts
        ELSE /\ job_dicts' = [job_dicts EXCEPT ![jobs[job_id]].status = JOB_STATUS_IN_PROGRESS,
                                               ![jobs[job_id]].started_at = clock]
             /\ executor' = [executor EXCEPT ![t].pc = "body", ![t].job = jobs[job_id]]
  /\ UNCHANGED <<jobs, queues, results, stored, clock, ret, nonjobvars>>

\* process_job, first locked block: a pool thread that took call t marks the
\* job in progress.
ProcessJobStart(t) ==
  /\ Taken(executor, t)
  /\ LET job_id == executor[t].job_id
     IN IF job_id \notin DOMAIN jobs
        THEN /\ executor' = [executor EXCEPT ![t].pc = "done"]
             /\ UNCHANGED job_dicts
        ELSE LET job == jobs[job_id]
             IN /\ job_dicts' = [job_dicts EXCEPT ![job].status = JOB_STATUS_IN_PROGRESS,
                                                  ![job].started_at = clock]
                /\ executor' = [executor EXCEPT ![t].pc = "body", ![t].job = job]
  /\ UNCHANGED <<jobs, queues, results, stored, clock, ret, nonjobvars>>

\* process_job dropping the outcome of a body that returned.
ProcessJobReturn_lost(t, result) ==
  /\ t \in Running(executor)
  /\ executor' = [executor EXCEPT ![t].pc = "done"]
  /\ UNCHANGED <<jobs, job_dicts, queues, results, stored, clock, ret, nonjobvars>>

\* process_job: the task body returned `result`; second locked block.
ProcessJobReturn(t, result) ==
  /\ t \in Running(executor)
  /\ LET job_id == executor[t].job_id
         job == executor[t].job
     IN IF job_id \in DOMAIN jobs
        THEN job_dicts' = [job_dicts EXCEPT ![job].result = result,
                                            ![job].status = JOB_STATUS_COMPLETED,
                                            ![job].ended_at = clock]
        ELSE UNCHANGED job_dicts
  /\ executor' = [executor EXCEPT ![t].pc = "done"]
  /\ UNCHANGED <<jobs, queues, results, stored, clock, ret, nonjobvars>>

\* process_job recording a failure without its end timestamp.
ProcessJobRaise_noend(t) ==
  /\ t \in Running(executor)
  /\ IF executor[t].job_id \in DOMAIN jobs
     THEN job_dicts' = [job_dicts EXCEPT ![executor[t].job].status = JOB_STATUS_FAILED,
                                         ![executor[t].job].error = ErrorMsg]
     ELSE UNCHANGED job_dicts
  /\ executor' = [executor EXCEPT ![t].pc = "done"]
  /\ UNCHANGED <<jobs, queues, results, stored, clock, ret, nonjobvars>>

\* process_job: the task body raised; the except block.
ProcessJobRaise(t) ==
  /\ t \in Running(executor)
  /\ LET job_id == executor[t].job_id
         job == executor[t].job
     IN IF job_id \in DOMAIN jobs
        THEN job_dicts' = [job_dicts EXCEPT ![job].status = JOB_STATUS_FAILED,
                                            ![job].error = ErrorMsg,
                                            ![job].ended_at = clock]
        ELSE UNCHANGED job_dicts
  /\ executor' = [executor EXCEPT ![t].pc = "done"]
  /\ UNCHANGED <<jobs, queues, results, stored, clock, ret, nonjobvars>>

\* cancel_job without the status test: it cancels finished jobs too.
cancel_job_any_status(job_id) ==
  IF job_id \in DOMAIN jobs
  THEN /\ job_dicts' = [job_dicts EXCEPT ![jobs[job_id]].status = JOB_STATUS_CANCELLED,
                                         ![jobs[job_id]].ended_at = clock]
       /\ queues' = [q \in DOMAIN queues |-> ListRemove(queues[q], job_id)]
       /\ ret' = [op |-> "cancel_job", job_id |-> job_id, value |-> TRUE]
       /\ UNCHANGED <<jobs, results, stored, executor, clock, nonjobvars>>
  ELSE /\ ret' = [op |-> "cancel_job", job_id |-> job_id, value |-> FALSE]
       /\ UNCHANGED <<jobs, job_dicts, queues, results, stored, executor, clock, nonjobvars>>

\* cancel_job: the test it makes on the job, and what it writes when it passes.
CancelTest(job_id) ==
  /\ job_id \in DOMAIN jobs
  /\ job_dicts[jobs[job_id]].status \in {JOB_STATUS_QUEUED, JOB_STATUS_IN_PROGRESS}

CancelWrites(job_id) ==
  LET job == jobs[job_id]
      queue_name == job_dicts[job].queue
  IN /\ job_dicts' = [job_dicts EXCEPT ![job].status = JOB_STATUS_CANCELLED,
                                       ![job].ended_at = clock]
     /\ queues' = IF queue_name \in DOMAIN queues /\ InList(job_id, queues[queue_name])
                  THEN [queues EXCEPT ![queue_name] = ListRemove(@, job_id)]
                  ELSE queues

\* cancel_job(job_id)
cancel_job(job_id) ==
  IF CancelTest(job_id)
  THEN /\ CancelWrites(job_id)
       /\ ret' = [op |-> "cancel_job", job_id |-> job_id, value |-> TRUE]
       /\ UNCHANGED <<jobs, results, stored, executor, clock, nonjobvars>>
  ELSE /\ ret' = [op |-> "cancel_job", job_id |-> job_id, value |-> FALSE]
       /\ UNCHANGED <<jobs, job_dicts, queues, results, stored, executor, clock, nonjobvars>>

CancelJob == \E job_id \in JobIdInputs : cancel_job(job_id)

\* get_job_status reporting the start timestamp as the end timestamp.
StatusSnapshot_swapped(job_id) ==
  IF job_id \notin DOMAIN jobs
  THEN [job_id |-> job_id, status |-> "not_found", result |-> NoValue,
        error |-> "Trabajo no encontrado"]
  ELSE LET job == job_dicts[jobs[job_id]]
       IN [job_id |-> job_id, status |-> job.status, queue |-> job.queue,
           enqueued_at |-> job.enqueued_at, started_at |-> job.started_at,
           ended_at |-> job.started_at, result |-> job.result, error |-> job.error]

\* The dict get_job_status builds.
StatusSnapshot(job_id) ==
  IF job_id \notin DOMAIN jobs
  THEN [job_id |-> job_id, status |-> "not_found", result |-> NoValue,
        error |-> "Trabajo no encontrado"]
  ELSE LET job == job_dicts[jobs[job_id]]
       IN [job_id |-> job_id, status |-> job.status, queue |-> job.queue,
           enqueued_at |-> job.enqueued_at, started_at |-> job.started_at,
           ended_at |-> job.ended_at, result |-> job.result, error |-> job.error]

\* get_job_status(job_id)
get_job_status(job_id) ==
  /\ ret' = [op |-> "get_job_status", job_id |-> job_id, value |-> StatusSnapshot(job_id)]
  /\ UNCHANGED <<jobs, job_dicts, queues, results, stored, executor, clock, nonjobvars>>

GetJobStatus == \E job_id \in JobIdInputs : get_job_status(job_id)

\* store_result: what its locked block writes.
StoreWrites(key, result, expiration) ==
  /\ results' = [k \in DOMAIN results \cup {key} |->
                   IF k = key THEN [result |-> result, expiration |-> clock + expiration]
                   ELSE results[k]]
  /\ stored' = [k \in DOMAIN stored \cup {key} |->
                  IF k = key THEN [result |-> result, at |-> clock, expiration |-> expiration]
                  ELSE stored[k]]

\* store_result(key, result, expiration)
store_result(key, result, expiration) ==
  /\ StoreWrites(key, result, expiration)
  /\ ret' = [op |-> "store_result", key |-> key, value |-> TRUE]
  /\ UNCHANGED <<jobs, job_dicts, queues, executor, clock, nonjobvars>>

\* store_result with the default expiration, as process_doc_task calls it.
StoreResult ==
  \E key \in ResultKeys, result \in BodyResults : store_result(key, result, JOB_EXPIRATION)

\* get_result still returning an entry at the very time of its expiry.
get_result_at_expiry(key) ==
  /\ IF key \in DOMAIN results
     THEN IF results[key].expiration >= clock
          THEN /\ ret' = [op |-> "get_result", key |-> key, value |-> results[key].result]
               /\ UNCHANGED results
          ELSE /\ results' = [k \in DOMAIN results \ {key} |-> results[k]]
               /\ ret' = [op |-> "get_result", key |-> key, value |-> NoValue]
     ELSE /\ ret' = [op |-> "get_result", key |-> key, value |-> NoValue]
          /\ UNCHANGED results
  /\ UNCHANGED <<jobs, job_dicts, queues, executor, clock, stored, nonjobvars>>

\* get_result(key)
get_result(key) ==
  /\ IF key \in DOMAIN results
     THEN IF results[key].expiration > clock
          THEN /\ ret' = [op |-> "get_result", key |-> key, value |-> results[key].result]
               /\ UNCHANGED results
          ELSE /\ results' = [k \in DOMAIN results \ {key} |-> results[k]]
               /\ ret' = [op |-> "get_result", key |-> key, value |-> NoValue]
     ELSE /\ ret' = [op |-> "get_result", key |-> key, value |-> NoValue]
          /\ UNCHANGED results
  /\ UNCHANGED <<jobs, job_dicts, queues, executor, clock, stored, nonjobvars>>

GetResult == \E key \in ResultKeys : get_result(key)

\* The sweep taking a job that ended exactly one window ago as well.
JobIdsToRemove_inclusive(days) ==
  LET cutoff_time == clock - (days * 24 * 60 * 60)
  IN {job_id \in DOMAIN jobs :
        LET job == job_dicts[jobs[job_id]]
        IN /\ job.status \in TerminalStatuses
           /\ job.ended_at # NoTime
           /\ job.ended_at <= cutoff_time}

\* clean_old_jobs(days)
JobIdsToRemove(days) ==
  LET cutoff_time == clock - (days * 24 * 60 * 60)
  IN {job_id \in DOMAIN jobs :
        LET job == job_dicts[jobs[job_id]]
        IN /\ job.status \in TerminalStatuses
           /\ job.ended_at # NoTime
           /\ job.ended_at < cutoff_time}

RECURSIVE ListWithout(_, _)
\* `queue_jobs.remove(job_id)` once for every removed job: each removed id
\* loses one occurrence per deleted job of that id (ids in S are distinct).
ListWithout(s, S) ==
  IF s = <<>> THEN <<>>
  ELSE IF Head(s) \in S THEN ListWithout(Tail(s), S \ {Head(s)})
  ELSE <<Head(s)>> \o ListWithout(Tail(s), S)

clean_old_jobs(days) ==
  LET job_ids_to_remove == JobIdsToRemove(days)
      result_keys_to_remove == {key \in DOMAIN results : results[key].expiration < clock}
  IN /\ jobs' = [i \in DOMAIN jobs \ job_ids_to_remove |-> jobs[i]]
     /\ queues' = [q \in DOMAIN queues |-> ListWithout(queues[q], job_ids_to_remove)]
     /\ results' = [k \in DOMAIN results \ result_keys_to_remove |-> results[k]]
     /\ ret' = [op |-> "clean_old_jobs", value |-> Cardinality(job_ids_to_remove)]
     /\ UNCHANGED <<job_dicts, executor, clock, stored, nonjobvars>>

CleanOldJobs == \E days \in DaysInputs : clean_old_jobs(days)

\* Time passes.
Tick ==
  /\ clock < MaxClock * TickStep
  /\ clock' = clock + TickStep
  /\ UNCHANGED <<jobs, job_dicts, queues, results, stored, executor, ret, nonjobvars>>

ProcessJobStarts == \E t \in 1..Len(executor) : ProcessJobStart(t)
ProcessJobReturns == \E t \in 1..Len(executor), result \in BodyResults : ProcessJobReturn(t, result)
ProcessJobRaises == \E t \in 1..Len(executor) : ProcessJobRaise(t)

Next ==
  \/ EnqueueJob
  \/ ProcessJobStarts
  \/ ProcessJobReturns
  \/ ProcessJobRaises
  \/ CancelJob
  \/ GetJobStatus
  \/ StoreResult
  \/ GetResult
  \/ CleanOldJobs
  \/ Tick

Spec == Init /\ [][Next]_vars

\* --------------------------------------------------------- the result store
\* The result store on its own, with a finer clock: half a retention window
\* per tick, two keys, two values, and the expiration argument of store_result.
MaxResultTicks == 4     \* clock ticks in one behaviour of ResultSpec
HalfWindow == JOB_EXPIRATION \div 2
StoreKeys == {"k1", "k2"}
StoreValues == {"r1", "r2"}
ExpirationInputs == {JOB_EXPIRATION, HalfWindow}

ResultStore ==
  \E key \in StoreKeys, result \in StoreValues, expiration \in ExpirationInputs :
    store_result(key, result, expiration)

ResultGet == \E key \in StoreKeys : get_result(key)

ResultTick ==
  /\ clock < MaxResultTicks * HalfWindow
  /\ clock' = clock + HalfWindow
  /\ UNCHANGED <<jobs, job_dicts, queues, results, stored, executor, ret, nonjobvars>>

ResultNext ==
  \/ ResultStore
  \/ ResultGet
  \/ CleanOldJobs
  \/ ResultTick

ResultSpec == Init /\ [][ResultNext]_vars

\* ------------------------------------------------- caller-supplied job ids
\* enqueue_job with its job_id argument: the caller names the job, and may
\* name two jobs alike.
MaxIdJobs == 2          \* enqueue_job calls in one behaviour of IdSpec
CallerIds == {1, 2}

IdEnqueueJob ==
  /\ Len(job_dicts) < MaxIdJobs
  /\ \E job_id \in CallerIds, queue_name \in QueueInputs : enqueue_job(job_id, queue_name)

IdNext ==
  \/ IdEnqueueJob
  \/ ProcessJobStarts
  \/ ProcessJobReturns
  \/ ProcessJobRaises
  \/ CancelJob
  \/ CleanOldJobs
  \/ Tick

IdSpec == Init /\ [][IdNext]_vars

\* ---------------------------------------------------------------- the lock
\* The same functions with every `with lock:` block taken apart: a thread
\* acquires the lock, runs the block, and releases it on leaving the block
\* (also when the block returns).  Threads 1..MaxCallers call the API;
\* thread MaxCallers + t is the pool thread that runs submitted call t.
MaxLockJobs == 2        \* enqueue_job calls in one behaviour of LockSpec
MaxCallers == 1         \* threads that call the API in LockSpec

Callers == 1..MaxCallers
Worker(t) == MaxCallers + t
LockThreads == 1..(MaxCallers + MaxLockJobs)

\* Where thread th is: idle when it is in none of the functions.
At(th) == IF th \in DOMAIN lock_pc THEN lock_pc[th].at ELSE "idle"

SetThread(th, rec) == [k \in DOMAIN lock_pc \cup {th} |-> IF k = th THEN rec ELSE lock_pc[k]]
\* The thread left the function: its locals are gone.
DropThread(th) == [k \in DOMAIN lock_pc \ {th} |-> lock_pc[k]]

Holds(th) == lock = <<th>>

\* enqueue_job calls that generated their id and have not stored the job yet.
Enqueuing == {th \in DOMAIN lock_pc : lock_pc[th].op = "enqueue_job"
                                      /\ lock_pc[th].at \in {"acquire", "block"}}

\* A caller enters enqueue_job, cancel_job or clean_old_jobs, up to its
\* `with lock:`.
LockCall(th) ==
  /\ At(th) = "idle"
  /\ \/ /\ Len(job_dicts) + Cardinality(Enqueuing) < MaxLockJobs
        /\ \E queue_name \in {QUEUE_DOCS} :
             lock_pc' = SetThread(th, [op |-> "enqueue_job", at |-> "acquire",
                                       job_id |-> Len(job_dicts) + Cardinality(Enqueuing) + 1,
                                       queue_name |-> queue_name, days |-> 0,
                                       value |-> FALSE])
     \/ \E job_id \in 1..MaxLockJobs :
          lock_pc' = SetThread(th, [op |-> "cancel_job", at |-> "acquire", job_id |-> job_id,
                                    queue_name |-> "", days |-> 0, value |-> FALSE])
     \/ \E days \in DaysInputs :
          lock_pc' = SetThread(th, [op |-> "clean_old_jobs", at |-> "acquire", job_id |-> 0,
                                    queue_name |-> "", days |-> days, value |-> FALSE])
  /\ UNCHANGED <<jobvars, lock, crawlvars, docvars, embedvars, chunkvars, searchvars>>

\* A pool thread takes submitted call t and enters process_job.
LockProcessJob(t) ==
  /\ Taken(executor, t)
  /\ executor' = [executor EXCEPT ![t].pc = "body"]
  /\ lock_pc' = SetThread(Worker(t), [op |-> "process_job", at |-> "acquire",
                                      job_id |-> executor[t].job_id, outcome |-> "none"])
  /\ UNCHANGED <<jobs, job_dicts, queues, results, stored, clock, ret, lock,
                 crawlvars, docvars, embedvars, chunkvars, searchvars>>

\* `with lock:` entered: the thread waits until no thread holds the lock.
LockAcquire(th) ==
  /\ At(th) = "acquire"
  /\ lock = <<>>
  /\ lock' = <<th>>
  /\ lock_pc' = [lock_pc EXCEPT ![th].at = "block"]
  /\ UNCHANGED <<jobvars, crawlvars, docvars, embedvars, chunkvars, searchvars>>

\* The block of enqueue_job.
EnqueueBlock(th) ==
  LET job_id == lock_pc[th].job_id
      queue_name == lock_pc[th].queue_name
      job == [id |-> job_id, status |-> JOB_STATUS_QUEUED, queue |-> queue_name,
              enqueued_at |-> clock, started_at |-> NoTime, ended_at |-> NoTime,
              result |-> NoValue, error |-> NoValue]
      qs == IF queue_name \in DOMAIN queues THEN queues
            ELSE [q \in DOMAIN queues \cup {queue_name} |->
                    IF q = queue_name THEN <<>> ELSE queues[q]]
  IN /\ job_dicts' = Append(job_dicts, job)
     /\ jobs' = [i \in DOMAIN jobs \cup {job_id} |->
                   IF i = job_id THEN Len(job_dicts) + 1 ELSE jobs[i]]
     /\ queues' = [qs EXCEPT ![queue_name] = Append(@, job_id)]
     /\ lock_pc' = [lock_pc EXCEPT ![th].at = "release"]
     /\ UNCHANGED <<results, executor>>

\* The block of cancel_job.
CancelBlock(th) ==
  LET job_id == lock_pc[th].job_id
  IN /\ IF CancelTest(job_id)
        THEN CancelWrites(job_id)
        ELSE UNCHANGED <<job_dicts, queues>>
     /\ lock_pc' = [lock_pc EXCEPT ![th].at = "release", ![th].value = CancelTest(job_id)]
     /\ UNCHANGED <<jobs, results, executor>>

\* The block of clean_old_jobs.
CleanBlock(th) ==
  LET job_ids_to_remove == JobIdsToRemove(lock_pc[th].days)
      result_keys_to_remove == {key \in DOMAIN results : results[key].expiration < clock}
  IN /\ jobs' = [i \in DOMAIN jobs \ job_ids_to_remove |-> jobs[i]]
     /\ queues' = [q \in DOMAIN queues |-> ListWithout(queues[q], job_ids_to_remove)]
     /\ results' = [k \in DOMAIN results \ result_keys_to_remove |-> results[k]]
     /\ lock_pc' = [lock_pc EXCEPT ![th].at = "release"]
     /\ UNCHANGED <<job_dicts, executor>>

\* The blocks of process_job: the first one, the one after the task body
\* returned and the one of the except clause.
ProcessBlock(th) ==
  LET t == th - MaxCallers
      job_id == lock_pc[th].job_id
      outcome == lock_pc[th].outcome
  IN /\ IF outcome = "none"
        THEN IF job_id \notin DOMAIN jobs
             THEN /\ lock_pc' = [lock_pc EXCEPT ![th].at = "release", ![th].outcome = "return"]
                  /\ UNCHANGED <<job_dicts, executor>>
             ELSE /\ job_dicts' = [job_dicts EXCEPT
                       ![jobs[job_id]].status = JOB_STATUS_IN_PROGRESS,
                       ![jobs[job_id]].started_at = clock]
                  /\ executor' = [executor EXCEPT ![t].job = jobs[job_id]]
                  /\ lock_pc' = [lock_pc EXCEPT ![th].at = "release"]
        ELSE /\ IF job_id \in DOMAIN jobs
                THEN IF outcome = "returned"
                     THEN job_dicts' = [job_dicts EXCEPT
                            ![executor[t].job].result = "r1",
                            ![executor[t].job].status = JOB_STATUS_COMPLETED,
                            ![executor[t].job].ended_at = clock]
                     ELSE job_dicts' = [job_dicts EXCEPT
                            ![executor[t].job].status = JOB_STATUS_FAILED,
                            ![executor[t].job].error = ErrorMsg,
                            ![executor[t].job].ended_at = clock]
                ELSE UNCHANGED job_dicts
             /\ lock_pc' = [lock_pc EXCEPT ![th].at = "release"]
             /\ UNCHANGED executor
     /\ UNCHANGED <<jobs, queues, results>>

\* The statements of a `with lock:` block.
LockBlock(th) ==
  /\ At(th) = "block"
  /\ CASE lock_pc[th].op = "enqueue_job" -> EnqueueBlock(th)
       [] lock_pc[th].op = "cancel_job" -> CancelBlock(th)
       [] lock_pc[th].op = "clean_old_jobs" -> CleanBlock(th)
       [] lock_pc[th].op = "process_job" -> ProcessBlock(th)
  /\ UNCHANGED <<clock, ret, stored, lock, crawlvars, docvars, embedvars, chunkvars, searchvars>>

\* Where a thread goes on when it leaves its block.
AfterBlock(rec) ==
  CASE rec.op = "enqueue_job" -> "submit"
    [] rec.op = "process_job" /\ rec.outcome = "none" -> "run_async_task"
    [] OTHER -> "return"

\* process_job keeping the lock while the task body runs.
LockRelease_kept(th) ==
  /\ At(th) = "release"
  /\ lock' = IF AfterBlock(lock_pc[th]) = "run_async_task" THEN lock ELSE <<>>
  /\ lock_pc' = [lock_pc EXCEPT ![th].at = AfterBlock(lock_pc[th])]
  /\ UNCHANGED <<jobvars, crawlvars, docvars, embedvars, chunkvars, searchvars>>

\* The block is left: the lock is released.
LockRelease(th) ==
  /\ At(th) = "release"
  /\ lock' = <<>>
  /\ lock_pc' = [lock_pc EXCEPT ![th].at = AfterBlock(lock_pc[th])]
  /\ UNCHANGED <<jobvars, crawlvars, docvars, embedvars, chunkvars, searchvars>>

\* enqueue_job after its block: executor.submit(process_job, job_id), return.
LockSubmit(th) ==
  /\ At(th) = "submit"
  /\ executor' = Append(executor, [job_id |-> lock_pc[th].job_id, pc |-> "pending", job |-> 0])
  /\ ret' = [op |-> "enqueue_job", job_id |-> lock_pc[th].job_id]
  /\ lock_pc' = DropThread(th)
  /\ UNCHANGED <<jobs, job_dicts, queues, results, stored, clock, lock,
                 crawlvars, docvars, embedvars, chunkvars, searchvars>>

\* run_async_task(job["func"], ...) returns or raises.
LockTaskBody(th) ==
  /\ At(th) = "run_async_task"
  /\ \E outcome \in {"returned", "raised"} :
       lock_pc' = [lock_pc EXCEPT ![th].at = "acquire", ![th].outcome = outcome]
  /\ UNCHANGED <<jobvars, lock, crawlvars, docvars, embedvars, chunkvars, searchvars>>

\* The function returns to its caller; a pool thread is free again.
LockReturn(th) ==
  /\ At(th) = "return"
  /\ lock_pc' = DropThread(th)
  /\ IF th \in Callers
     THEN /\ ret' = IF lock_pc[th].op = "cancel_job"
                    THEN [op |-> "cancel_job", job_id |-> lock_pc[th].job_id,
                          value |-> lock_pc[th].value]
                    ELSE [op |-> "clean_old_jobs"]
          /\ UNCHANGED executor
     ELSE /\ executor' = [executor EXCEPT ![th - MaxCallers].pc = "done"]
          /\ UNCHANGED ret
  /\ UNCHANGED <<jobs, job_dicts, queues, results, stored, clock, lock,
                 crawlvars, docvars, embedvars, chunkvars, searchvars>>

LockCalls == \E th \in Callers : LockCall(th)
LockProcessJobs == \E t \in 1..Len(executor) : LockProcessJob(t)
LockAcquires == \E th \in LockThreads : LockAcquire(th)
LockBlocks == \E th \in LockThreads : LockBlock(th)
LockReleases == \E th \in LockThreads : LockRelease(th)
LockSubmits == \E th \in Callers : LockSubmit(th)
LockTaskBodies == \E th \in LockThreads : LockTaskBody(th)
LockReturns == \E th \in LockThreads : LockReturn(th)

LockNext ==
  \/ LockCalls
  \/ LockProcessJobs
  \/ LockAcquires
  \/ LockBlocks
  \/ LockReleases
  \/ LockSubmits
  \/ LockTaskBodies
  \/ LockReturns
  \/ Tick

LockSpec == Init /\ [][LockNext]_vars

\* ---------------------------------------------------------------- the pool
\* The worker pool under load: more jobs than pool threads, one queue, no
\* clock.  The start-documentation endpoint enqueues on QUEUE_DOCS.
PoolEnqueueJob ==
  /\ Len(job_dicts) < MaxPoolJobs
  /\ enqueue_job(Len(job_dicts) + 1, QUEUE_DOCS)

PoolNext ==
  \/ PoolEnqueueJob
  \/ ProcessJobStarts
  \/ ProcessJobReturns
  \/ ProcessJobRaises
  \/ CancelJob

PoolSpec == Init /\ [][PoolNext]_vars

\* The pool's threads are scheduled fairly and every task body terminates.
PoolFairness ==
  /\ WF_vars(ProcessJobStarts)
  /\ \A t \in 1..MaxPoolJobs :
        WF_vars((\E result \in BodyResults : ProcessJobReturn(t, result)) \/ ProcessJobRaise(t))

FairPoolSpec == PoolSpec /\ PoolFairness

\* ---------------------------------------------------------------- the crawl
MAX_PAGES == 50
MaxDepth == 2           \* largest max_depth argument
SitePages == 52         \* pages the wide site's front page links to

\* A url, as urlparse splits it.  The netloc and the path are lists of tokens
\* (":" and "/" are tokens of their own); n, when not 0, is a page number
\* that ends the last segment.
Url(host, path, query) ==
  [scheme |-> "http", netloc |-> <<host>>, path |-> path, n |-> 0, query |-> query]
\* The same with an explicit port: http://host:port/path
UrlPort(host, port, path, query) ==
  [scheme |-> "http", netloc |-> <<host, ":", port>>, path |-> path, n |-> 0,
   query |-> query]

UrlA == Url("d", <<"/">>, "")                  \* http://d/
UrlA0 == Url("d", <<>>, "")                    \* http://d
UrlB == Url("d", <<"/", "b">>, "")             \* http://d/b
UrlBs == Url("d", <<"/", "b", "/">>, "")       \* http://d/b/
UrlBq == Url("d", <<"/", "b">>, "q")           \* http://d/b?q
UrlC == Url("d", <<"/", "c">>, "")             \* http://d/c
UrlPdf == Url("d", <<"/", "c", ".pdf">>, "")   \* http://d/c.pdf
UrlX == Url("e", <<"/", "x">>, "")             \* http://e/x
UrlW == Url("w", <<"/">>, "")                  \* http://w/
UrlP(i) == [Url("w", <<"/", "p">>, "") EXCEPT !.n = i]   \* http://w/p<i>
UrlD80 == UrlPort("d", "80", <<"/", "b">>, "") \* http://d:80/b
UrlD80c == UrlPort("d", "80", <<"/", "c", "/">>, "")   \* http://d:80/c/

\* The url as text, token by token (the page number is left out).
UrlStr(url) ==
  <<url.scheme, "://">> \o url.netloc \o url.path
    \o (IF url.query = "" THEN <<>> ELSE <<"?", url.query>>)

\* str.rstrip('/')
RECURSIVE RStripSlash(_)
RStripSlash(s) ==
  IF s # <<>> /\ s[Len(s)] = "/" THEN RStripSlash(SubSeq(s, 1, Len(s) - 1)) ELSE s

\* normalize_url(url): netloc and path, trailing slashes stripped.
normalize_url(url) ==
  IF url.n # 0 THEN [text |-> url.netloc \o url.path, n |-> url.n]
  ELSE [text |-> RStripSlash(url.netloc \o url.path), n |-> 0]

\* Position of the first token of s that is in S; Len(s) + 1 when there is none.
RECURSIVE FirstOf(_, _)
FirstOf(s, S) ==
  IF s = <<>> THEN 1
  ELSE IF Head(s) \in S THEN 1
  ELSE 1 + FirstOf(Tail(s), S)

\* Tokens made of scheme characters only, starting with a letter.
SchemeLike == {"http", "d", "e", "w"}

\* urlparse(url) for a url given as text (a normalized key is such a text):
\* what stands before the first ':' is the scheme when it is made of scheme
\* characters; a netloc is only read after "//"; the query follows '?'.
urlparse(s) ==
  LET text == s.text
      has_scheme == /\ FirstOf(text, {":", "://"}) = 2
                    /\ Len(text) >= 2
                    /\ text[1] \in SchemeLike
      after_scheme == IF has_scheme THEN SubSeq(text, 3, Len(text)) ELSE text
      joined == has_scheme /\ text[2] = "://"
      slashes == /\ ~joined
                 /\ Len(after_scheme) >= 2
                 /\ after_scheme[1] = "/"
                 /\ after_scheme[2] = "/"
      rest == IF slashes THEN SubSeq(after_scheme, 3, Len(after_scheme)) ELSE after_scheme
      netloc_end == IF joined \/ slashes THEN FirstOf(rest, {"/", "?"}) - 1 ELSE 0
      tail == SubSeq(rest, netloc_end + 1, Len(rest))
      q == FirstOf(tail, {"?"})
  IN [scheme |-> IF has_scheme THEN text[1] ELSE "",
      netloc |-> SubSeq(rest, 1, netloc_end),
      path |-> SubSeq(tail, 1, q - 1),
      n |-> s.n,
      query |-> IF q < Len(tail) THEN tail[q + 1] ELSE ""]

\* get_domain(url)
get_domain(url) == url.netloc

\* generate_id(url): the md5 digest of the url text.
generate_id(url) == [md5 |-> url]

\* pattern.search(text) for a pattern that is a literal: text contains it.
Search(pattern, text) ==
  \E i \in 0..(Len(text) - Len(pattern)) :
    \A k \in 1..Len(pattern) : text[i + k] = pattern[k]

\* any(pattern.search(current_url) for pattern in excluded_patterns)
Excluded(url, excluded_paths) ==
  \E i \in 1..Len(excluded_paths) : Search(excluded_paths[i], UrlStr(url))

\* The links fetch_documentation keeps: same domain, no binary extension.
NonHtmlExts == {".pdf", ".zip", ".png", ".jpg", ".jpeg", ".gif"}
KeepLink(url, full_url) ==
  /\ get_domain(full_url) = get_domain(url)
  /\ ~ \E i \in 1..Len(UrlStr(full_url)) : UrlStr(full_url)[i] \in NonHtmlExts

RECURSIVE FilterLinks(_, _)
FilterLinks(url, hrefs) ==
  IF hrefs = <<>> THEN <<>>
  ELSE (IF KeepLink(url, Head(hrefs)) THEN <<Head(hrefs)>> ELSE <<>>)
         \o FilterLinks(url, Tail(hrefs))

\* What the site may answer to a fetch: a page with these hrefs, or an error.
WideLinks == [i \in 1..SitePages |-> UrlP(i)]
Page(hrefs) == [ok |-> TRUE, hrefs |-> hrefs]
FetchError == [ok |-> FALSE]
Answers(url) ==
  IF url = UrlW THEN {Page(WideLinks)}
  ELSE IF url.netloc = <<"w">> THEN {Page(<<UrlW>>)}
  ELSE IF url.netloc = UrlD80.netloc THEN {Page(<<UrlD80c, UrlB>>), Page(<<>>), FetchError}
  ELSE { Page(<<>>), Page(<<UrlB, UrlC>>), Page(<<UrlA>>), Page(<<UrlBs, UrlBq, UrlC>>),
         Page(<<UrlX, UrlPdf, UrlB>>), Page(<<UrlC, UrlA0, UrlC>>), FetchError }

\* Inputs of crawl_documentation.
BaseUrls == {UrlA, UrlBq, UrlW, UrlD80}
ExcludedInputs == { <<>>, << <<"/", "b">> >>, << <<"?">>, <<"x">> >> }

Min(a, b) == IF a < b THEN a ELSE b
Max(a, b) == IF a > b THEN a ELSE b

\* completion_percentage during the crawl, in hundredths of a percent.
CrawlPercentage(count, pending) == Min(9000, (count * 10000) \div Max(pending + 1, 1))

\* crawl_documentation(base_url, max_depth, excluded_paths): up to the loop.
crawl_documentation(base_url, max_depth, excluded_paths) ==
  /\ crawl_pc = "idle"
  /\ crawl_args' = [base_url |-> base_url, max_depth |-> max_depth,
                    excluded_paths |-> excluded_paths]
  /\ pages' = <<>>
  /\ visited' = {}
  /\ to_visit' = << <<base_url, 0>> >>
  /\ pages_count' = 0
  /\ doc_status' = [d \in DOMAIN doc_status \cup {generate_id(base_url)} |->
                      IF d = generate_id(base_url)
                      THEN [url |-> base_url, status |-> "in_progress",
                            sections_analyzed |-> 0, total_pages |-> 1,
                            completion_percentage |-> 0, message |-> "Iniciando"]
                      ELSE doc_status[d]]
  /\ crawl_pc' = "loop"
  /\ UNCHANGED <<current, fetched, sleeps, noncrawlvars>>

CrawlStart ==
  \E base_url \in BaseUrls, max_depth \in 0..MaxDepth, excluded_paths \in ExcludedInputs :
    crawl_documentation(base_url, max_depth, excluded_paths)

\* The while condition without the page cap.
LoopCondition_nocap == to_visit # <<>>

DocId == generate_id(crawl_args.base_url)

\* The while condition with a cap of one page.
LoopCondition_first == to_visit # <<>> /\ Cardinality(visited) < 1

\* while to_visit and len(visited) < MAX_PAGES
LoopCondition == to_visit # <<>> /\ Cardinality(visited) < MAX_PAGES

\* The loop head with the exclusion test made after visited.add.
CrawlVisit_excluded_late ==
  /\ crawl_pc = "loop"
  /\ LoopCondition
  /\ LET current_url == Head(to_visit)[1]
         normalized_url == normalize_url(current_url)
     IN /\ to_visit' = Tail(to_visit)
        /\ IF normalized_url \in visited
           THEN UNCHANGED <<crawl_pc, visited, pages_count, doc_status, current, fetched>>
           ELSE IF Excluded(current_url, crawl_args.excluded_paths)
           THEN /\ visited' = visited \cup {normalized_url}
                /\ UNCHANGED <<crawl_pc, pages_count, doc_status, current, fetched>>
           ELSE /\ visited' = visited \cup {normalized_url}
                /\ pages_count' = pages_count + 1
                /\ doc_status' = [doc_status EXCEPT
                     ![DocId].sections_analyzed = pages_count + 1,
                     ![DocId].completion_percentage =
                        CrawlPercentage(pages_count + 1, Len(to_visit')),
                     ![DocId].message = "Analizando"]
                /\ current' = <<current_url, Head(to_visit)[2]>>
                /\ fetched' = Append(fetched, current_url)
                /\ crawl_pc' = "fetch"
  /\ UNCHANGED <<crawl_args, pages, sleeps, noncrawlvars>>

\* One pass through the head of the while loop: pop an entry, skip it or
\* mark it visited, publish progress and call fetch_documentation.
CrawlVisit ==
  /\ crawl_pc = "loop"
  /\ LoopCondition
  /\ LET current_url == Head(to_visit)[1]
         depth == Head(to_visit)[2]
         normalized_url == normalize_url(current_url)
     IN /\ to_visit' = Tail(to_visit)
        /\ IF normalized_url \in visited
           THEN UNCHANGED <<crawl_pc, visited, pages_count, doc_status, current, fetched>>
           ELSE IF Excluded(current_url, crawl_args.excluded_paths)
           THEN UNCHANGED <<crawl_pc, visited, pages_count, doc_status, current, fetched>>
           ELSE /\ visited' = visited \cup {normalized_url}
                /\ pages_count' = pages_count + 1
                /\ doc_status' = [doc_status EXCEPT
                     ![DocId].sections_analyzed = pages_count + 1,
                     ![DocId].completion_percentage =
                        CrawlPercentage(pages_count + 1, Len(to_visit')),
                     ![DocId].message = "Analizando"]
                /\ current' = <<current_url, depth>>
                /\ fetched' = Append(fetched, current_url)
                /\ crawl_pc' = "fetch"
  /\ UNCHANGED <<crawl_args, pages, sleeps, noncrawlvars>>

\* The links of a fetched page appended whatever the depth of the page.
CrawlFetched_anydepth(hrefs) ==
  /\ crawl_pc = "fetch"
  /\ LET current_url == current[1]
         depth == current[2]
         links == FilterLinks(current_url, hrefs)
         new_links == SelectSeq([i \in 1..Len(links) |-> <<links[i], depth + 1>>],
                                LAMBDA e : normalize_url(e[1]) \notin visited)
     IN /\ pages' = [k \in DOMAIN pages \cup {normalize_url(current_url)} |->
                       IF k = normalize_url(current_url)
                       THEN [url |-> current_url, links |-> links]
                       ELSE pages[k]]
        /\ to_visit' = to_visit \o new_links
        /\ doc_status' = [doc_status EXCEPT
             ![DocId].total_pages = Cardinality(visited) + Len(to_visit')]
  /\ crawl_pc' = "sleep"
  /\ UNCHANGED <<crawl_args, visited, pages_count, current, fetched, sleeps, noncrawlvars>>

\* The links of a fetched page put in front of the pending list.
CrawlFetched_prepend(hrefs) ==
  /\ crawl_pc = "fetch"
  /\ LET current_url == current[1]
         depth == current[2]
         links == FilterLinks(current_url, hrefs)
         new_links == SelectSeq([i \in 1..Len(links) |-> <<links[i], depth + 1>>],
                                LAMBDA e : normalize_url(e[1]) \notin visited)
     IN /\ pages' = [k \in DOMAIN pages \cup {normalize_url(current_url)} |->
                       IF k = normalize_url(current_url)
                       THEN [url |-> current_url, links |-> links]
                       ELSE pages[k]]
        /\ IF depth < crawl_args.max_depth
           THEN /\ to_visit' = new_links \o to_visit
                /\ doc_status' = [doc_status EXCEPT
                     ![DocId].total_pages = Cardinality(visited) + Len(to_visit')]
           ELSE UNCHANGED <<to_visit, doc_status>>
  /\ crawl_pc' = "sleep"
  /\ UNCHANGED <<crawl_args, visited, pages_count, current, fetched, sleeps, noncrawlvars>>

\* fetch_documentation returned page_data.
CrawlFetched(hrefs) ==
  /\ crawl_pc = "fetch"
  /\ LET current_url == current[1]
         depth == current[2]
         links == FilterLinks(current_url, hrefs)
         new_links == SelectSeq([i \in 1..Len(links) |-> <<links[i], depth + 1>>],
                                LAMBDA e : normalize_url(e[1]) \notin visited)
     IN /\ pages' = [k \in DOMAIN pages \cup {normalize_url(current_url)} |->
                       IF k = normalize_url(current_url)
                       THEN [url |-> current_url, links |-> links]
                       ELSE pages[k]]
        /\ IF depth < crawl_args.max_depth
           THEN /\ to_visit' = to_visit \o new_links
                /\ doc_status' = [doc_status EXCEPT
                     ![DocId].total_pages = Cardinality(visited) + Len(to_visit')]
           ELSE UNCHANGED <<to_visit, doc_status>>
  /\ crawl_pc' = "sleep"
  /\ UNCHANGED <<crawl_args, visited, pages_count, current, fetched, sleeps, noncrawlvars>>

\* A failed fetch ending the crawl with the frontier left as it is.
CrawlFetchFailed_abort ==
  /\ crawl_pc = "fetch"
  /\ crawl_pc' = "done"
  /\ UNCHANGED <<crawl_args, pages, visited, to_visit, pages_count, current, doc_status,
                 fetched, sleeps, noncrawlvars>>

\* fetch_documentation raised: the page is skipped.
CrawlFetchFailed ==
  /\ crawl_pc = "fetch"
  /\ crawl_pc' = "loop"
  /\ UNCHANGED <<crawl_args, pages, visited, to_visit, pages_count, current, doc_status,
                 fetched, sleeps, noncrawlvars>>

CrawlFetch ==
  /\ crawl_pc = "fetch"
  /\ \E answer \in Answers(current[1]) :
       IF answer.ok THEN CrawlFetched(answer.hrefs) ELSE CrawlFetchFailed

\* await asyncio.sleep(0.5) is over.
CrawlSleep ==
  /\ crawl_pc = "sleep"
  /\ crawl_pc' = "loop"
  /\ sleeps' = Append(sleeps, Len(fetched))
  /\ UNCHANGED <<crawl_args, pages, visited, to_visit, pages_count, current, doc_status,
                 fetched, noncrawlvars>>

\* The loop is left: final progress, return pages.
CrawlFinish ==
  /\ crawl_pc = "loop"
  /\ ~LoopCondition
  /\ doc_status' = [doc_status EXCEPT
       ![DocId].sections_analyzed = pages_count,
       ![DocId].total_pages = pages_count,
       ![DocId].completion_percentage = 9000,
       ![DocId].message = "Finalizado crawling"]
  /\ crawl_pc' = "done"
  /\ UNCHANGED <<crawl_args, pages, visited, to_visit, pages_count, current, fetched, sleeps, noncrawlvars>>

\* get_documentation_status(url)
get_documentation_status(url) ==
  IF generate_id(url) \notin DOMAIN doc_status
  THEN [url |-> url, status |-> "not_found", sections_analyzed |-> 0, total_pages |-> 0,
        completion_percentage |-> 0, message |-> "no encontrada"]
  ELSE doc_status[generate_id(url)]

CrawlNext ==
  \/ CrawlStart
  \/ CrawlVisit
  \/ CrawlFetch
  \/ CrawlSleep
  \/ CrawlFinish

CrawlSpec == Init /\ [][CrawlNext]_vars

\* The event loop runs the coroutine on: every fetch answers or fails, every
\* sleep ends.
FairCrawlSpec ==
  CrawlSpec /\ WF_vars(CrawlVisit) /\ WF_vars(CrawlFetch) /\ WF_vars(CrawlSleep)
            /\ WF_vars(CrawlFinish)

\* ------------------------------------------------- the documentation job
\* One documentation job: POST /scrape enqueues process_doc_task, a pool
\* thread runs process_documentation (and, inside it, the crawl above), while
\* DELETE /scrape and GET /scrape-status are served by the event loop thread.
DocUrls == {UrlA, UrlA0}
DocDepths == {0, 1}

\* dict[key] = value on a dict that may not have the key yet
SetField(rec, f, v) == [g \in DOMAIN rec \cup {f} |-> IF g = f THEN v ELSE rec[g]]

\* dict.update(other)
Update(rec, other) ==
  [g \in DOMAIN rec \cup DOMAIN other |-> IF g \in DOMAIN other THEN other[g] ELSE rec[g]]

\* The dict get_documentation_status(url) returned was changed to `status`:
\* it is the stored one when the document has a status, a fresh one otherwise.
StatusStored(url, status) ==
  IF generate_id(url) \in DOMAIN doc_status
  THEN [doc_status EXCEPT ![generate_id(url)] = status]
  ELSE doc_status

\* start_documentation_processing(data): POST /scrape
start_documentation_processing(url, analyze_subsections, max_depth, excluded_paths) ==
  IF /\ url \in DOMAIN doc_jobs
     /\ StatusSnapshot(doc_jobs[url]).status \in {"queued", "in_progress"}
  THEN LET status == SetField(get_documentation_status(url), "job_id", doc_jobs[url])
       IN /\ doc_status' = StatusStored(url, status)
          /\ ret' = [op |-> "start_documentation_processing", url |-> url, value |-> status]
          /\ UNCHANGED <<jobs, job_dicts, queues, results, executor, clock, stored>>
          /\ UNCHANGED <<crawl_pc, crawl_args, pages, visited, to_visit, pages_count, current,
                         fetched, sleeps, docvars, embedvars, chunkvars, searchvars, lockvars>>
  ELSE LET job_id == Len(job_dicts) + 1
           status == SetField(get_documentation_status(url), "job_id", job_id)
       IN /\ job_dicts = <<>>       \* one documentation job in a behaviour
          /\ EnqueueWrites(job_id, QUEUE_DOCS)
          /\ doc_task' = [url |-> url, analyze_subsections |-> analyze_subsections,
                          max_depth |-> max_depth, excluded_paths |-> excluded_paths,
                          job_id |-> job_id]
          /\ doc_jobs' = [u \in DOMAIN doc_jobs \cup {url} |->
                            IF u = url THEN job_id ELSE doc_jobs[u]]
          /\ doc_status' = StatusStored(url, status)
          /\ ret' = [op |-> "start_documentation_processing", url |-> url, value |-> status]
          /\ UNCHANGED <<results, clock, stored>>
          /\ UNCHANGED <<crawl_pc, crawl_args, pages, visited, to_visit, pages_count, current,
                         fetched, sleeps, doc_pc, doc_cache, doc_index, cancelled_docs,
                         embedvars, chunkvars, searchvars, lockvars>>

StartDocumentation ==
  \E url \in DocUrls, analyze_subsections \in BOOLEAN, max_depth \in DocDepths :
    start_documentation_processing(url, analyze_subsections, max_depth, <<>>)

\* cancel_documentation_processing(url): DELETE /scrape
cancel_documentation_processing(url) ==
  IF url \notin DOMAIN doc_jobs
  THEN /\ ret' = [op |-> "cancel_documentation_processing", url |-> url,
                  value |-> [status |-> "not_found"]]
       /\ UNCHANGED <<jobs, job_dicts, queues, results, executor, clock, stored,
                      crawlvars, docvars, embedvars, chunkvars, searchvars, lockvars>>
  ELSE IF CancelTest(doc_jobs[url])
  THEN LET status == [get_documentation_status(url) EXCEPT
                        !.status = "cancelled", !.message = "Procesamiento cancelado"]
       IN /\ CancelWrites(doc_jobs[url])
          /\ doc_status' = StatusStored(url, status)
          /\ cancelled_docs' = cancelled_docs \cup {url}
          /\ ret' = [op |-> "cancel_documentation_processing", url |-> url,
                     value |-> [status |-> "cancelled", job_id |-> doc_jobs[url]]]
          /\ UNCHANGED <<jobs, results, executor, clock, stored>>
          /\ UNCHANGED <<crawl_pc, crawl_args, pages, visited, to_visit, pages_count, current,
                         fetched, sleeps, doc_jobs, doc_task, doc_pc, doc_cache, doc_index,
                         embedvars, chunkvars, searchvars, lockvars>>
  ELSE /\ ret' = [op |-> "cancel_documentation_processing", url |-> url,
                  value |-> [status |-> "not_cancelled", job_id |-> doc_jobs[url]]]
       /\ UNCHANGED <<jobs, job_dicts, queues, results, executor, clock, stored,
                      crawlvars, docvars, embedvars, chunkvars, searchvars, lockvars>>

CancelDocumentation == \E url \in DocUrls : cancel_documentation_processing(url)

\* The key process_doc_task stores a large result under.
StoredKey(url) == [doc_process |-> generate_id(url)]

\* get_result(key) finds a live entry.
ResultFound(key) == key \in DOMAIN results /\ results[key].expiration > clock

\* The result store after get_result(key): an expired entry is deleted.
ResultsAfterGet(key) ==
  IF key \in DOMAIN results /\ ~ResultFound(key)
  THEN [k \in DOMAIN results \ {key} |-> results[k]]
  ELSE results

\* The job's result names a separately stored result.
HasStoredKey(job_status) == "stored_key" \in DOMAIN job_status.result

\* The dict check_documentation_status answers with.  (The result of a
\* completed documentation job is a dict.)
StatusAnswer(url) ==
  LET status == get_documentation_status(url)
  IN IF url \notin DOMAIN doc_jobs THEN status
     ELSE LET job_id == doc_jobs[url]
              job_status == StatusSnapshot(job_id)
          IN IF job_status.status = "completed"
             THEN LET s1 == SetField([status EXCEPT !.status = "completed"], "job_id", job_id)
                  IN IF HasStoredKey(job_status) /\ ResultFound(job_status.result.stored_key)
                     THEN Update(s1, results[job_status.result.stored_key].result)
                     ELSE s1
             ELSE IF job_status.status = "failed"
             THEN SetField([status EXCEPT !.status = "failed", !.message = "Error"],
                           "job_id", job_id)
             ELSE SetField(status, "job_id", job_id)

\* check_documentation_status(url): GET /scrape-status
check_documentation_status(url) ==
  /\ doc_status' = StatusStored(url, StatusAnswer(url))
  /\ results' = IF /\ url \in DOMAIN doc_jobs
                   /\ StatusSnapshot(doc_jobs[url]).status = "completed"
                   /\ HasStoredKey(StatusSnapshot(doc_jobs[url]))
                THEN ResultsAfterGet(StatusSnapshot(doc_jobs[url]).result.stored_key)
                ELSE results
  /\ ret' = [op |-> "check_documentation_status", url |-> url, value |-> StatusAnswer(url)]
  /\ UNCHANGED <<jobs, job_dicts, queues, executor, clock, stored>>
  /\ UNCHANGED <<crawl_pc, crawl_args, pages, visited, to_visit, pages_count, current,
                 fetched, sleeps, docvars, embedvars, chunkvars, searchvars, lockvars>>

CheckDocumentation == \E url \in DocUrls : check_documentation_status(url)

\* The pool thread of the documentation job is inside the task body.
DocRunning ==
  /\ doc_task # <<>>
  /\ doc_task.job_id \in Running(executor)

DocTaskId == generate_id(doc_task.url)

\* process_documentation(url, ...): up to its first await.
process_documentation ==
  /\ DocRunning
  /\ doc_pc = "idle"
  /\ doc_status' = [d \in DOMAIN doc_status \cup {DocTaskId} |->
                      IF d = DocTaskId
                      THEN [url |-> doc_task.url, status |-> "in_progress",
                            sections_analyzed |-> 0, total_pages |-> 1,
                            completion_percentage |-> 0, message |-> "Iniciando"]
                      ELSE doc_status[d]]
  /\ doc_pc' = "started"
  /\ UNCHANGED <<crawl_pc, crawl_args, pages, visited, to_visit, pages_count, current,
                 fetched, sleeps, doc_jobs, doc_task, doc_cache, doc_index, cancelled_docs>>
  /\ UNCHANGED <<jobvars, embedvars, chunkvars, searchvars, lockvars>>

\* process_documentation's except block: the status becomes failed, the
\* exception goes on to process_doc_task.
DocFailed ==
  /\ doc_status' = IF DocTaskId \in DOMAIN doc_status
                   THEN [doc_status EXCEPT ![DocTaskId].status = "failed",
                                           ![DocTaskId].message = "Error"]
                   ELSE doc_status
  /\ doc_pc' = "raised"

\* pages = await crawl_documentation(url, max_depth, excluded_paths)
DocCrawl ==
  /\ DocRunning
  /\ doc_pc = "started"
  /\ doc_task.analyze_subsections
  /\ crawl_documentation(doc_task.url, doc_task.max_depth, doc_task.excluded_paths)

\* analyze_subsections is false: only the main page is fetched.
DocFetchMain ==
  /\ DocRunning
  /\ doc_pc = "started"
  /\ ~doc_task.analyze_subsections
  /\ \E answer \in Answers(doc_task.url) :
       IF answer.ok
       THEN /\ pages' = [k \in {normalize_url(doc_task.url)} |->
                           [url |-> doc_task.url,
                            links |-> FilterLinks(doc_task.url, answer.hrefs)]]
            /\ doc_status' = [doc_status EXCEPT
                 ![DocTaskId].sections_analyzed = 1,
                 ![DocTaskId].total_pages = 1,
                 ![DocTaskId].completion_percentage = 5000,
                 ![DocTaskId].message = "Analizando principal"]
            /\ doc_pc' = "extract"
       ELSE DocFailed /\ UNCHANGED pages
  /\ UNCHANGED <<crawl_pc, crawl_args, visited, to_visit, pages_count, current, fetched, sleeps,
                 doc_jobs, doc_task, doc_cache, doc_index, cancelled_docs>>
  /\ UNCHANGED <<jobvars, embedvars, chunkvars, searchvars, lockvars>>

\* The crawl returned: main_page_data = pages[normalize_url(url)]
DocMainPage ==
  /\ DocRunning
  /\ doc_pc = "started"
  /\ crawl_pc = "done"
  /\ IF normalize_url(doc_task.url) \in DOMAIN pages
     THEN doc_pc' = "extract" /\ UNCHANGED doc_status
     ELSE DocFailed
  /\ UNCHANGED <<crawl_pc, crawl_args, pages, visited, to_visit, pages_count, current,
                 fetched, sleeps, doc_jobs, doc_task, doc_cache, doc_index, cancelled_docs>>
  /\ UNCHANGED <<jobvars, embedvars, chunkvars, searchvars, lockvars>>

\* extract_key_info returned or raised.
DocExtract ==
  /\ DocRunning
  /\ doc_pc = "extract"
  /\ \E ok \in BOOLEAN :
       IF ok
       THEN /\ doc_status' = [doc_status EXCEPT
                 ![DocTaskId].completion_percentage = 7000,
                 ![DocTaskId].message = "Creando indice"]
            /\ doc_pc' = "index"
       ELSE DocFailed
  /\ UNCHANGED <<crawl_pc, crawl_args, pages, visited, to_visit, pages_count, current,
                 fetched, sleeps, doc_jobs, doc_task, doc_cache, doc_index, cancelled_docs>>
  /\ UNCHANGED <<jobvars, embedvars, chunkvars, searchvars, lockvars>>

\* create_vector_index returned: with the index and its status writes, or,
\* after an exception inside it, with the fallback index and no write.
DocIndex ==
  /\ DocRunning
  /\ doc_pc = "index"
  /\ \E ok \in BOOLEAN :
       IF ok
       THEN doc_status' = [doc_status EXCEPT
              ![DocTaskId].message = "Indice vectorial creado",
              ![DocTaskId].completion_percentage = 10000]
       ELSE UNCHANGED doc_status
  /\ doc_pc' = "summary"
  /\ UNCHANGED <<crawl_pc, crawl_args, pages, visited, to_visit, pages_count, current,
                 fetched, sleeps, doc_jobs, doc_task, doc_cache, doc_index, cancelled_docs>>
  /\ UNCHANGED <<jobvars, embedvars, chunkvars, searchvars, lockvars>>

\* The response with the crawl loop's page counter for its page counts.
DocResponse_counter ==
  [url |-> doc_task.url, status |-> "completed",
   sections_analyzed |-> pages_count,
   total_pages |-> pages_count,
   completion_percentage |-> 10000, message |-> "Documentacion analizada"]

\* The response process_documentation returns.
DocResponse ==
  [url |-> doc_task.url, status |-> "completed",
   sections_analyzed |-> Cardinality(DOMAIN pages),
   total_pages |-> Cardinality(DOMAIN pages),
   completion_percentage |-> 10000, message |-> "Documentacion analizada"]

\* The summary embedding is there: cache, index and final status are written.
DocComplete ==
  /\ DocRunning
  /\ doc_pc = "summary"
  /\ doc_cache' = [d \in DOMAIN doc_cache \cup {DocTaskId} |->
                     IF d = DocTaskId THEN [url |-> doc_task.url, pages |-> pages]
                     ELSE doc_cache[d]]
  /\ doc_index' = [d \in DOMAIN doc_index \cup {DocTaskId} |->
                     IF d = DocTaskId THEN [pages |-> DOMAIN pages] ELSE doc_index[d]]
  /\ doc_status' = [doc_status EXCEPT
       ![DocTaskId].status = "completed",
       ![DocTaskId].completion_percentage = 10000,
       ![DocTaskId].message = "Documentacion analizada"]
  /\ doc_pc' = "returned"
  /\ UNCHANGED <<crawl_pc, crawl_args, pages, visited, to_visit, pages_count, current,
                 fetched, sleeps, doc_jobs, doc_task, cancelled_docs>>
  /\ UNCHANGED <<jobvars, embedvars, chunkvars, searchvars, lockvars>>

\* process_doc_task: the result is large and is stored separately.
DocStoreResult ==
  /\ DocRunning
  /\ doc_pc = "returned"
  /\ StoreWrites(StoredKey(doc_task.url), DocResponse, JOB_EXPIRATION)
  /\ doc_pc' = "stored"
  /\ UNCHANGED <<jobs, job_dicts, queues, executor, clock, ret>>
  /\ UNCHANGED <<crawlvars, doc_jobs, doc_task, doc_cache, doc_index, cancelled_docs,
                 embedvars, chunkvars, searchvars, lockvars>>

\* process_doc_task returns: the response, or the key it was stored under.
DocJobReturn ==
  /\ DocRunning
  /\ doc_pc \in {"returned", "stored"}
  /\ ProcessJobReturn(doc_task.job_id,
                      IF doc_pc = "stored"
                      THEN [stored_key |-> StoredKey(doc_task.url), status |-> "completed"]
                      ELSE DocResponse)

\* process_doc_task's except block: update_doc_status changes a dict of its
\* own (it looks the status up under the id of the id), then the exception
\* reaches process_job.
DocJobRaise ==
  /\ DocRunning
  /\ doc_pc = "raised"
  /\ ProcessJobRaise(doc_task.job_id)

DocNext ==
  \/ StartDocumentation
  \/ CancelDocumentation
  \/ CheckDocumentation
  \/ ProcessJobStarts
  \/ process_documentation
  \/ DocCrawl
  \/ CrawlVisit
  \/ CrawlFetch
  \/ CrawlSleep
  \/ CrawlFinish
  \/ DocFetchMain
  \/ DocMainPage
  \/ DocExtract
  \/ DocIndex
  \/ DocComplete
  \/ DocStoreResult
  \/ DocJobReturn
  \/ DocJobRaise

DocSpec == Init /\ [][DocNext]_vars

\* ------------------------------------------- several documentation jobs
\* POST /scrape and DELETE /scrape called again and again, with the task
\* body of each job running from the start of its process_job call to its
\* return.  Here doc_task maps each job id to the keyword arguments the job
\* was enqueued with and, once its body has a result, to that result.
MaxDocJobs == 2         \* documentation jobs enqueued in one behaviour of RestartSpec

\* start_documentation_processing(data): POST /scrape, for any number of jobs
RestartDocumentation ==
  \E url \in DocUrls :
    IF /\ url \in DOMAIN doc_jobs
       /\ StatusSnapshot(doc_jobs[url]).status \in {"queued", "in_progress"}
    THEN start_documentation_processing(url, FALSE, 0, <<>>)
    ELSE LET job_id == Len(job_dicts) + 1
             status == SetField(get_documentation_status(url), "job_id", job_id)
         IN /\ Len(job_dicts) < MaxDocJobs
            /\ EnqueueWrites(job_id, QUEUE_DOCS)
            /\ doc_task' = [j \in DOMAIN doc_task \cup {job_id} |->
                              IF j = job_id
                              THEN [url |-> url, job_id |-> job_id, result |-> NoValue]
                              ELSE doc_task[j]]
            /\ doc_jobs' = [u \in DOMAIN doc_jobs \cup {url} |->
                              IF u = url THEN job_id ELSE doc_jobs[u]]
            /\ doc_status' = StatusStored(url, status)
            /\ ret' = [op |-> "start_documentation_processing", url |-> url, value |-> status]
            /\ UNCHANGED <<results, clock, stored>>
            /\ UNCHANGED <<crawl_pc, crawl_args, pages, visited, to_visit, pages_count, current,
                           fetched, sleeps, doc_pc, doc_cache, doc_index, cancelled_docs,
                           embedvars, chunkvars, searchvars, lockvars>>

\* The submitted calls whose process_doc_task body, for url, a pool thread
\* is executing.
BodiesOf(url) == {t \in Running(executor) : doc_task[executor[t].job_id].url = url}

RestartNext ==
  \/ RestartDocumentation
  \/ CancelDocumentation
  \/ ProcessJobStarts
  \/ ProcessJobReturns
  \/ ProcessJobRaises

RestartSpec == Init /\ [][RestartNext]_vars

\* ------------------------------------------- stored documentation results
\* process_doc_task with a large result: store_result(f"doc_process:{doc_id}",
\* result), then return the key.  The result of a run is one of StoreValues.
TaskStoreResult(t, result) ==
  /\ t \in Running(executor)
  /\ doc_task[executor[t].job_id].result = NoValue
  /\ StoreWrites(StoredKey(doc_task[executor[t].job_id].url), result, JOB_EXPIRATION)
  /\ doc_task' = [doc_task EXCEPT ![executor[t].job_id].result = result]
  /\ UNCHANGED <<jobs, job_dicts, queues, executor, clock, ret>>
  /\ UNCHANGED <<crawlvars, doc_jobs, doc_pc, doc_cache, doc_index, cancelled_docs,
                 embedvars, chunkvars, searchvars, lockvars>>

\* return {"stored_key": ..., "status": "completed"}, and process_job's
\* second block.
TaskReturnKey(t) ==
  /\ t \in Running(executor)
  /\ doc_task[executor[t].job_id].result # NoValue
  /\ ProcessJobReturn(t, [stored_key |-> StoredKey(doc_task[executor[t].job_id].url),
                          status |-> "completed"])

TaskStoresResult == \E t \in 1..Len(executor), result \in StoreValues : TaskStoreResult(t, result)
TaskReturnsKey == \E t \in 1..Len(executor) : TaskReturnKey(t)

\* get_result(job_status["result"]["stored_key"]), as GET /scrape-status calls it
GetStoredResult == \E url \in DocUrls : get_result(StoredKey(url))

StoredNext ==
  \/ RestartDocumentation
  \/ ProcessJobStarts
  \/ TaskStoresResult
  \/ TaskReturnsKey
  \/ GetStoredResult
  \/ CleanOldJobs
  \/ Tick

StoredSpec == Init /\ [][StoredNext]_vars


\* ------------------------------------------------------ the embedding executor
\* embedding.py: every embedding computation is submitted to one executor
\* with a single thread.  The callers are the coroutines of the jobs the (at
\* most max_workers) pool threads run; a coroutine awaits its call's future.
MaxEmbedCalls == 5      \* embedding calls in one behaviour
embed_max_workers == 1
EmbedKinds == {"generate_embedding", "generate_embeddings_batch"}

EmbedRunning(ex) == {i \in 1..Len(ex) : ex[i].pc = "running"}
EmbedPending(ex) == {i \in 1..Len(ex) : ex[i].pc = "pending"}

\* loop.run_in_executor(executor, func, ...) and the await on its future
RunInExecutor(w, func) ==
  /\ embed_pc[w] = "idle"
  /\ Len(embed_executor) < MaxEmbedCalls
  /\ embed_executor' = Append(embed_executor, [caller |-> w, func |-> func, pc |-> "pending"])
  /\ embed_pc' = [embed_pc EXCEPT ![w] = "awaiting"]
  /\ UNCHANGED <<jobvars, crawlvars, docvars, chunkvars, searchvars, lockvars>>

\* generate_embedding_async(text)
generate_embedding_async(w) == RunInExecutor(w, "generate_embedding")

\* generate_embeddings_batch_async(texts)
generate_embeddings_batch_async(w) == RunInExecutor(w, "generate_embeddings_batch")

\* The executor starting calls on as many threads as the job pool has.
EmbedStart_pool ==
  /\ EmbedPending(embed_executor) # {}
  /\ Cardinality(EmbedRunning(embed_executor)) < max_workers
  /\ LET i == CHOOSE p \in EmbedPending(embed_executor) :
                \A q \in EmbedPending(embed_executor) : p <= q
     IN embed_executor' = [embed_executor EXCEPT ![i].pc = "running"]
  /\ UNCHANGED <<embed_pc, jobvars, crawlvars, docvars, chunkvars, searchvars, lockvars>>

\* The executor's thread is free and takes the oldest submitted call.
EmbedStart ==
  /\ EmbedPending(embed_executor) # {}
  /\ Cardinality(EmbedRunning(embed_executor)) < embed_max_workers
  /\ LET i == CHOOSE p \in EmbedPending(embed_executor) :
                \A q \in EmbedPending(embed_executor) : p <= q
     IN embed_executor' = [embed_executor EXCEPT ![i].pc = "running"]
  /\ UNCHANGED <<embed_pc, jobvars, crawlvars, docvars, chunkvars, searchvars, lockvars>>

\* generate_embedding / generate_embeddings_batch returned (the embedding,
\* or zeros after an exception): the future resolves and the caller goes on.
EmbedReturn(i) ==
  /\ i \in EmbedRunning(embed_executor)
  /\ embed_executor' = [embed_executor EXCEPT ![i].pc = "done"]
  /\ embed_pc' = [embed_pc EXCEPT ![embed_executor[i].caller] = "idle"]
  /\ UNCHANGED <<jobvars, crawlvars, docvars, chunkvars, searchvars, lockvars>>

EmbedRequests ==
  \E w \in 1..max_workers : generate_embedding_async(w) \/ generate_embeddings_batch_async(w)
EmbedReturns == \E i \in 1..Len(embed_executor) : EmbedReturn(i)

EmbedNext ==
  \/ EmbedRequests
  \/ EmbedStart
  \/ EmbedReturns

EmbedSpec == Init /\ [][EmbedNext]_vars

\* The executor's thread is scheduled and every computation terminates.
FairEmbedSpec == EmbedSpec /\ WF_vars(EmbedStart) /\ WF_vars(EmbedReturns)

\* ------------------------------------------------------------------ chunk_text
\* embedding.chunk_text on texts over a small alphabet: two letters, the
\* full stop, the blank and the newline.  A text is the list of its characters.
MaxTextLen == 6         \* longest text
MaxChunkLen == 4        \* largest max_length argument
Alphabet == {"a", "b", ".", " ", "\n"}
Whitespace == {" ", "\n"}
SentenceEnds == {".", "!", "?"}
Texts == UNION {[1..k -> Alphabet] : k \in 0..MaxTextLen}

\* str.split(c)
RECURSIVE SplitOn(_, _)
SplitOn(s, c) ==
  LET i == FirstOf(s, {c})
  IN IF i > Len(s) THEN <<s>>
     ELSE <<SubSeq(s, 1, i - 1)>> \o SplitOn(SubSeq(s, i + 1, Len(s)), c)

\* str.strip()
RECURSIVE LStrip(_)
LStrip(s) == IF s # <<>> /\ Head(s) \in Whitespace THEN LStrip(Tail(s)) ELSE s
RECURSIVE RStrip(_)
RStrip(s) ==
  IF s # <<>> /\ s[Len(s)] \in Whitespace THEN RStrip(SubSeq(s, 1, Len(s) - 1)) ELSE s
Strip(s) == LStrip(RStrip(s))

\* [p.strip() for p in text.split('\n') if p.strip()]
Paragraphs(text) ==
  LET lines == SplitOn(text, "\n")
  IN SelectSeq([i \in 1..Len(lines) |-> Strip(lines[i])], LAMBDA q : q # <<>>)

\* re.split(r'(?<=[.!?])\s+', paragraph): the paragraph is cut at every run
\* of whitespace that follows a sentence end; the run is dropped.
RECURSIVE Sentences(_)
Sentences(paragraph) ==
  LET cuts == {i \in 2..Len(paragraph) :
                 paragraph[i] \in Whitespace /\ paragraph[i - 1] \in SentenceEnds}
  IN IF cuts = {} THEN <<paragraph>>
     ELSE LET i == CHOOSE c \in cuts : \A d \in cuts : c <= d
              j == CHOOSE e \in i..Len(paragraph) :
                     /\ \A k \in i..e : paragraph[k] \in Whitespace
                     /\ e = Len(paragraph) \/ paragraph[e + 1] \notin Whitespace
          IN <<SubSeq(paragraph, 1, i - 1)>>
               \o Sentences(SubSeq(paragraph, j + 1, Len(paragraph)))

\* The join test with the joining blank left out of the count.
ChunkFits_nospace(current_chunk, piece, max_length) ==
  Len(current_chunk) + Len(piece) <= max_length

\* len(current_chunk) + len(sentence) + 1 <= max_length
ChunkFits(current_chunk, piece, max_length) ==
  Len(current_chunk) + Len(piece) + 1 <= max_length

\* The loop body with the full chunk thrown away instead of appended.
AddPiece_dropped(st, piece, max_length) ==
  IF ChunkFits(st.current_chunk, piece, max_length)
  THEN [st EXCEPT !.current_chunk = IF @ # <<>> THEN @ \o <<" ">> \o piece ELSE piece]
  ELSE [st EXCEPT !.current_chunk = piece]

\* The loop body for one sentence or one short paragraph: it joins the
\* current chunk, or closes it and starts the next one.
AddPiece(st, piece, max_length) ==
  IF ChunkFits(st.current_chunk, piece, max_length)
  THEN [st EXCEPT !.current_chunk = IF @ # <<>> THEN @ \o <<" ">> \o piece ELSE piece]
  ELSE [chunks |-> IF st.current_chunk # <<>> THEN Append(st.chunks, st.current_chunk)
                   ELSE st.chunks,
        current_chunk |-> piece]

\* The sentences of a paragraph longer than max_length, or the paragraph.
Pieces(paragraph, max_length) ==
  IF Len(paragraph) > max_length THEN Sentences(paragraph) ELSE <<paragraph>>

RECURSIVE AddPieces(_, _, _)
AddPieces(st, pieces, max_length) ==
  IF pieces = <<>> THEN st
  ELSE AddPieces(AddPiece(st, Head(pieces), max_length), Tail(pieces), max_length)

RECURSIVE ChunkLoop(_, _, _)
ChunkLoop(st, paragraphs, max_length) ==
  IF paragraphs = <<>> THEN st
  ELSE ChunkLoop(AddPieces(st, Pieces(Head(paragraphs), max_length), max_length),
                 Tail(paragraphs), max_length)

\* chunk_text(text, max_length)
chunk_text(text, max_length) ==
  IF text = <<>> THEN <<>>
  ELSE LET st == ChunkLoop([chunks |-> <<>>, current_chunk |-> <<>>],
                           Paragraphs(text), max_length)
       IN IF st.current_chunk # <<>> THEN Append(st.chunks, st.current_chunk)
          ELSE st.chunks

\* One call of chunk_text.
ChunkText ==
  /\ chunk_args = <<>>
  /\ \E text \in Texts, max_length \in 0..MaxChunkLen :
       /\ chunk_args' = [text |-> text, max_length |-> max_length]
       /\ chunks' = chunk_text(text, max_length)
  /\ UNCHANGED <<jobvars, crawlvars, docvars, embedvars, searchvars, lockvars>>

ChunkSpec == Init /\ [][ChunkText]_vars


\* --------------------------------------------------------- search_by_similarity
\* embedding.search_by_similarity on two-dimensional integer vectors.  The
\* cosine of query and embedding is kept as the exact rational
\* sign(dot) * dot^2 / (|q|^2 * |e|^2), which orders as the cosine does; a
\* zero vector has similarity 0, as sklearn's normalisation gives.
MaxEmbeddings == 3      \* longest list of embeddings
MaxTopK == 3            \* largest top_k argument
Coords == {-1, 0, 1}
Vectors == {<<x, y>> : x \in Coords, y \in Coords}
TextPool == <<"t1", "t2", "t3", "t4", "t5", "t6">>

Dot(u, v) == u[1] * v[1] + u[2] * v[2]
Sign(x) == IF x > 0 THEN 1 ELSE IF x < 0 THEN -1 ELSE 0

\* cosine_similarity([query_embedding], embeddings)[0][idx]
cosine_similarity(q, e) ==
  IF Dot(q, q) = 0 \/ Dot(e, e) = 0 THEN [n |-> 0, d |-> 1]
  ELSE [n |-> Sign(Dot(q, e)) * Dot(q, e) * Dot(q, e), d |-> Dot(q, q) * Dot(e, e)]

\* a <= b on similarities
SimLeq(a, b) == a.n * b.d <= b.n * a.d

\* np.argsort(similarities): the index orders that sort ascending; numpy's
\* default sort is not stable, so equal values come in either order.
argsort(similarities) ==
  {p \in [1..Len(similarities) -> 1..Len(similarities)] :
     /\ \A i, j \in 1..Len(similarities) : i # j => p[i] # p[j]
     /\ \A i \in 1..(Len(similarities) - 1) :
          SimLeq(similarities[p[i]], similarities[p[i + 1]])}

\* [::-1] left out.
Reverse_kept(s) == s

\* s[::-1]
Reverse(s) == [i \in 1..Len(s) |-> s[Len(s) + 1 - i]]

\* s[:k]
SliceTo(s, k) ==
  IF k >= 0 THEN SubSeq(s, 1, IF k < Len(s) THEN k ELSE Len(s))
  ELSE SubSeq(s, 1, Len(s) + k)

\* search_by_similarity(query_embedding, embeddings, texts, top_k): the
\* top_indices it may compute and the list it returns for each.
search_by_similarity(query_embedding, embeddings, texts, top_k) ==
  IF embeddings = <<>> \/ Len(embeddings) # Len(texts)
  THEN {[top_indices |-> <<>>, results |-> <<>>]}
  ELSE LET similarities == [i \in 1..Len(embeddings) |->
                              cosine_similarity(query_embedding, embeddings[i])]
       IN {[top_indices |-> SliceTo(Reverse(p), top_k),
            results |-> [i \in 1..Len(SliceTo(Reverse(p), top_k)) |->
                           [text |-> texts[SliceTo(Reverse(p), top_k)[i]],
                            similarity |-> similarities[SliceTo(Reverse(p), top_k)[i]]]]] :
             p \in argsort(similarities)}

\* One call of search_by_similarity.
SearchBySimilarity ==
  /\ sim_args = <<>>
  /\ \E query_embedding \in Vectors, n \in 0..MaxEmbeddings, top_k \in 0..MaxTopK :
       \E embeddings \in [1..n -> Vectors], m \in {n, n + 1} :
         LET texts == SubSeq(TextPool, 1, m)
         IN /\ sim_args' = [query_embedding |-> query_embedding, embeddings |-> embeddings,
                            texts |-> texts, top_k |-> top_k]
            /\ sim_results' \in search_by_similarity(query_embedding, embeddings, texts, top_k)
  /\ UNCHANGED <<doc_embeddings, doc_indexing, search_ret>>
  /\ UNCHANGED <<jobvars, crawlvars, docvars, embedvars, chunkvars, lockvars>>

SimSpec == Init /\ [][SearchBySimilarity]_vars


\* ------------------------------------------------------ search_in_documentation
\* docs.py: create_vector_index and the cache writes of process_documentation
\* on a crawled page map, then search_in_documentation / search_by_keywords.
\* A text is a list of words, a content a list of paragraphs; contents are
\* shorter than CHUNK_SIZE, so chunk_text joins a content into one chunk.
CHUNK_SIZE == 512
Words == {"alpha", "beta", "api"}
WordLen == [w \in Words |-> IF w = "alpha" THEN 5 ELSE IF w = "beta" THEN 4 ELSE 3]
Contents == {<<>>, <<<<"alpha">>>>, <<<<"beta">>>>, <<<<"alpha", "api">>, <<"beta">>>>}
Queries == {{}, {"alpha"}, {"beta"}, {"api"}, {"alpha", "beta"}}
SearchUrls == {UrlA, UrlA0, UrlD80}

\* The page maps a crawl may have returned: the seed alone, or with a page
\* it links to.
PageData(url, content) == [url |-> url, title |-> UrlStr(url), content |-> content]
CrawledPages ==
  {[base_url |-> UrlA, pages |-> [k \in {normalize_url(UrlA)} |-> PageData(UrlA, c)]] :
     c \in Contents}
  \cup {[base_url |-> UrlD80, pages |-> [k \in {normalize_url(UrlD80)} |-> PageData(UrlD80, c)]] :
          c \in Contents}
  \cup {[base_url |-> UrlA,
         pages |-> [k \in {normalize_url(UrlA), normalize_url(UrlB)} |->
                      IF k = normalize_url(UrlA) THEN PageData(UrlA, c1)
                      ELSE PageData(UrlB, c2)]] : c1 \in Contents, c2 \in Contents}

\* The words of a content, paragraph after paragraph.
RECURSIVE ContentWords(_)
ContentWords(content) ==
  IF content = <<>> THEN <<>> ELSE Head(content) \o ContentWords(Tail(content))

\* chunk_text(content, CHUNK_SIZE)
PageChunks(content) == IF content = <<>> THEN <<>> ELSE <<ContentWords(content)>>

\* model.encode(text): a vector that depends on the words of the text.
Encode(words) ==
  <<Cardinality({w \in words : w \in {"alpha", "api"}}),
    Cardinality({w \in words : w \in {"beta", "api"}})>>
Zeros == <<0, 0>>

\* generate_embedding(text): the encoding, or zeros when encoding raised.
generate_embedding(words, encode_ok) == IF encode_ok THEN Encode(words) ELSE Zeros

SeqRange(q) == {q[i] : i \in 1..Len(q)}

\* The orders of the set S that are non-increasing in score.
SortedOrders(S, score) ==
  {q \in [1..Cardinality(S) -> S] :
     /\ \A i, j \in 1..Cardinality(S) : i # j => q[i] # q[j]
     /\ \A i \in 1..(Cardinality(S) - 1) : score[q[i]] >= score[q[i + 1]]}

\* create_vector_index(pages, doc_id): what it stores in doc_embeddings; the
\* pages are gone through in the order page_order.
VectorEntries(pages_map, page_order) ==
  LET keys == SelectSeq(page_order, LAMBDA k : PageChunks(pages_map[k].content) # <<>>)
  IN [chunks |-> [i \in 1..Len(keys) |-> <<keys[i], 0>>],
      texts |-> [i \in 1..Len(keys) |-> PageChunks(pages_map[keys[i]].content)[1]],
      page_urls |-> keys]

\* create_vector_index(pages, doc_id): the index it returns.
VectorIndex(pages_map) ==
  [pages |-> [k \in DOMAIN pages_map |-> [title |-> pages_map[k].title, url |-> pages_map[k].url]],
   keywords |-> [w \in {v \in Words : /\ WordLen[v] > 3
                                      /\ \E k \in DOMAIN pages_map :
                                           v \in SeqRange(ContentWords(pages_map[k].content))} |->
                   {k \in DOMAIN pages_map : w \in SeqRange(ContentWords(pages_map[k].content))}]]

\* process_documentation step 4: index = await create_vector_index(pages, doc_id)
create_vector_index ==
  /\ doc_indexing = <<>>
  /\ \E crawled \in CrawledPages :
       \E page_order \in SortedOrders(DOMAIN crawled.pages, [k \in DOMAIN crawled.pages |-> 0]) :
         LET doc_id == generate_id(crawled.base_url)
         IN /\ doc_embeddings' = [d \in DOMAIN doc_embeddings \cup {doc_id} |->
                                    IF d = doc_id THEN VectorEntries(crawled.pages, page_order)
                                    ELSE doc_embeddings[d]]
            /\ doc_indexing' = [url |-> crawled.base_url, pages |-> crawled.pages,
                                index |-> VectorIndex(crawled.pages), pc |-> "indexed"]
  /\ UNCHANGED <<sim_args, sim_results, search_ret>>
  /\ UNCHANGED <<jobvars, crawlvars, docvars, embedvars, chunkvars, lockvars>>

\* process_documentation step 6: doc_cache[doc_id] = ...; doc_index[doc_id] = index
CacheDocumentation ==
  /\ doc_indexing # <<>>
  /\ doc_indexing.pc = "indexed"
  /\ LET doc_id == generate_id(doc_indexing.url)
     IN /\ doc_cache' = [d \in DOMAIN doc_cache \cup {doc_id} |->
                           IF d = doc_id
                           THEN [url |-> doc_indexing.url, pages |-> doc_indexing.pages]
                           ELSE doc_cache[d]]
        /\ doc_index' = [d \in DOMAIN doc_index \cup {doc_id} |->
                           IF d = doc_id THEN doc_indexing.index ELSE doc_index[d]]
  /\ doc_indexing' = [doc_indexing EXCEPT !.pc = "cached"]
  /\ UNCHANGED <<doc_jobs, doc_task, doc_pc, cancelled_docs>>
  /\ UNCHANGED <<sim_args, sim_results, doc_embeddings, search_ret>>
  /\ UNCHANGED <<jobvars, crawlvars, embedvars, chunkvars, lockvars>>

\* The paragraphs of a content that hold a query word longer than 3, or its
\* first two paragraphs when none does; "..." is appended.
Excerpt(content, query_words) ==
  LET relevant == SelectSeq(content, LAMBDA par :
                    \E w \in query_words : WordLen[w] > 3 /\ w \in SeqRange(par))
  IN [excerpt |-> IF relevant = <<>> THEN SubSeq(content, 1, IF Len(content) < 2 THEN Len(content) ELSE 2)
                  ELSE relevant]

\* search_by_keywords(url, query): the lists it may return (pages of equal
\* score come in the iteration order of a set of strings); [] after any
\* exception.
search_by_keywords(url, query_words) ==
  LET doc_id == generate_id(url)
  IN IF doc_id \notin DOMAIN doc_index \/ doc_id \notin DOMAIN doc_cache THEN {<<>>}
     ELSE LET index == doc_index[doc_id]
              pages_map == doc_cache[doc_id].pages
              hits(k) == {w \in query_words : /\ WordLen[w] > 3
                                              /\ w \in DOMAIN index.keywords
                                              /\ k \in index.keywords[w]}
              scored == {k \in DOMAIN index.pages : hits(k) # {}}
              page_scores == [k \in scored |-> Cardinality(hits(k))]
              len == IF Cardinality(query_words) > 1 THEN Cardinality(query_words) ELSE 1
          IN {LET top == SliceTo(relevant_pages, 5)
                  kept == SelectSeq(top, LAMBDA k : normalize_url(urlparse(k)) \in DOMAIN pages_map)
              IN [i \in 1..Len(kept) |->
                    LET page_data == pages_map[normalize_url(urlparse(kept[i]))]
                    IN [url |-> page_data.url, title |-> page_data.title,
                        text |-> Excerpt(page_data.content, query_words),
                        similarity |-> [n |-> page_scores[kept[i]], d |-> len]]] :
                relevant_pages \in SortedOrders(scored, page_scores)}

\* list.index(x)
IndexOf(s, x) == CHOOSE i \in 1..Len(s) : s[i] = x /\ \A j \in 1..(i - 1) : s[j] # x

\* The vector branch of search_in_documentation: query and chunk embeddings,
\* search_by_similarity with top_k = 5, and the page of each result.
VectorSearch(url, query_words, query_ok, chunks_ok) ==
  LET doc_id == generate_id(url)
      entries == doc_embeddings[doc_id]
      query_embedding == generate_embedding(query_words, query_ok)
      embeddings == [i \in 1..Len(entries.chunks) |->
                       generate_embedding(SeqRange(entries.texts[IndexOf(entries.chunks, entries.chunks[i])]),
                                          chunks_ok[i])]
  IN {[i \in 1..Len(found.results) |->
         LET result == found.results[i]
             page_url == entries.page_urls[IndexOf(entries.texts, result.text)]
         IN IF doc_id \in DOMAIN doc_index /\ page_url \in DOMAIN doc_index[doc_id].pages
            THEN [text |-> result.text, similarity |-> result.similarity,
                  url |-> page_url, title |-> doc_index[doc_id].pages[page_url].title]
            ELSE result] :
        found \in search_by_similarity(query_embedding, embeddings, entries.texts, 5)}

\* No vector entries for the document.
NoVectorEntries(url) ==
  \/ generate_id(url) \notin DOMAIN doc_embeddings
  \/ doc_embeddings[generate_id(url)].chunks = <<>>

\* search_in_documentation(url, query)
search_in_documentation(url, query_words, query_ok, chunks_ok) ==
  IF NoVectorEntries(url) THEN search_by_keywords(url, query_words)
  ELSE VectorSearch(url, query_words, query_ok, chunks_ok)

\* One call of search_in_documentation; encoding the query, or a chunk, may
\* raise inside generate_embedding.
SearchInDocumentation ==
  /\ \E url \in SearchUrls, query_words \in Queries, query_ok \in BOOLEAN,
        chunks_ok \in [1..2 -> BOOLEAN] :
       \E search_results \in search_in_documentation(url, query_words, query_ok, chunks_ok) :
         search_ret' = [url |-> url, query |-> query_words, query_ok |-> query_ok,
                        results |-> search_results]
  /\ UNCHANGED <<sim_args, sim_results, doc_embeddings, doc_indexing>>
  /\ UNCHANGED <<jobvars, crawlvars, docvars, embedvars, chunkvars, lockvars>>

SearchNext ==
  \/ create_vector_index
  \/ CacheDocumentation
  \/ SearchInDocumentation

SearchSpec == Init /\ [][SearchNext]_vars

\* ---------------------------------------------------------- query_documentation
\* Similarities are rationals [n, d]; sum(chunk["similarity"] ...) / len(...)
\* and the factor 0.9 are computed on them exactly.
RECURSIVE SumSimilarity(_)
SumSimilarity(chunk_list) ==
  IF chunk_list = <<>> THEN [n |-> 0, d |-> 1]
  ELSE LET h == Head(chunk_list).similarity
           r == SumSimilarity(Tail(chunk_list))
       IN [n |-> h.n * r.d + r.n * h.d, d |-> h.d * r.d]

\* query_documentation step 6: the confidence of the answer; found is what
\* search_in_documentation returned, relevant_chunks what the prompt was built from.
Confidence(relevant_chunks, found) ==
  IF relevant_chunks # <<>>
  THEN [n |-> SumSimilarity(relevant_chunks).n * 9,
        d |-> SumSimilarity(relevant_chunks).d * Len(relevant_chunks) * 10]
  ELSE [n |-> 5, d |-> 10]

\* query_documentation(url, query): what it returns for each list the search
\* may return; post_ok is whether the request to the language model succeeded.
query_documentation(url, query_words, query_ok, chunks_ok, post_ok) ==
  LET doc_id == generate_id(url)
  IN {LET main_page_missing ==
            /\ found = <<>>
            /\ doc_id \in DOMAIN doc_cache
            /\ normalize_url(url) \notin DOMAIN doc_cache[doc_id].pages
          relevant_chunks ==
            IF found = <<>> /\ doc_id \in DOMAIN doc_cache /\ ~main_page_missing
            THEN LET main_page == doc_cache[doc_id].pages[normalize_url(url)]
                 IN <<[url |-> main_page.url, title |-> main_page.title,
                       text |-> main_page.content, similarity |-> [n |-> 1, d |-> 1]]>>
            ELSE found
      IN IF main_page_missing \/ ~post_ok
         THEN [url |-> url, query |-> query_words, found |-> found, raised |-> TRUE]
         ELSE [url |-> url, query |-> query_words, found |-> found, raised |-> FALSE,
               sources |-> Len(relevant_chunks),
               confidence |-> Confidence(relevant_chunks, found)] :
        found \in search_in_documentation(url, query_words, query_ok, chunks_ok)}

\* One call of query_documentation.
QueryDocumentation ==
  /\ \E url \in SearchUrls, query_words \in Queries, query_ok \in BOOLEAN,
        chunks_ok \in [1..2 -> BOOLEAN], post_ok \in BOOLEAN :
       \E answer \in query_documentation(url, query_words, query_ok, chunks_ok, post_ok) :
         search_ret' = [answer EXCEPT !.found = [keyword |-> NoVectorEntries(url), chunks |-> @]]
  /\ UNCHANGED <<sim_args, sim_results, doc_embeddings, doc_indexing>>
  /\ UNCHANGED <<jobvars, crawlvars, docvars, embedvars, chunkvars, lockvars>>

QueryNext ==
  \/ create_vector_index
  \/ CacheDocumentation
  \/ QueryDocumentation

QuerySpec == Init /\ [][QueryNext]_vars


\* ------------------------------------------------------- job queue properties
JobRefs == 1..Len(job_dicts)

\* The status edges of the job state machine.
StatusEdges ==
  { <<JOB_STATUS_QUEUED, JOB_STATUS_IN_PROGRESS>>,
    <<JOB_STATUS_IN_PROGRESS, JOB_STATUS_COMPLETED>>,
    <<JOB_STATUS_IN_PROGRESS, JOB_STATUS_FAILED>>,
    <<JOB_STATUS_QUEUED, JOB_STATUS_CANCELLED>>,
    <<JOB_STATUS_IN_PROGRESS, JOB_STATUS_CANCELLED>> }

\* C1: in every step, every job record's status either stays or moves along
\* an edge of the state machine, and a record whose status is completed,
\* failed or cancelled is not written at all.
C1_StatusMachine ==
  [][\A j \in JobRefs :
       /\ job_dicts'[j].status # job_dicts[j].status
            => <<job_dicts[j].status, job_dicts'[j].status>> \in StatusEdges
       /\ job_dicts[j].status \in TerminalStatuses => job_dicts'[j] = job_dicts[j]]_vars

\* The job of call t was cancelled after the call's start.
CancelledWhileRunning(t) ==
  /\ t \in Running(executor)
  /\ job_dicts[executor[t].job].status = JOB_STATUS_CANCELLED

\* C2: when a job is cancelled while its task body executes, the step in
\* which process_job handles the body's outcome leaves the record cancelled
\* with result and error unset.
C2_OutcomeDiscarded ==
  [][\A t \in 1..Len(executor) :
       CancelledWhileRunning(t) =>
         /\ job_dicts'[executor[t].job].status = JOB_STATUS_CANCELLED
         /\ job_dicts'[executor[t].job].result = NoValue
         /\ job_dicts'[executor[t].job].error = NoValue]_vars

\* The job of call t was cancelled and the call has not started.
CancelledBeforeStart(t) ==
  /\ t \in Pending(executor)
  /\ executor[t].job_id \in DOMAIN jobs
  /\ job_dicts[jobs[executor[t].job_id]].status = JOB_STATUS_CANCELLED

\* C3: a job cancelled before a pool thread started it is reported cancelled,
\* with no result, by every snapshot taken while its record is in the table.
C3_CancelledStaysCancelled ==
  [][\A t \in 1..Len(executor) :
       CancelledBeforeStart(t) /\ executor[t].job_id \in DOMAIN jobs' =>
         /\ StatusSnapshot(executor[t].job_id)'.status = JOB_STATUS_CANCELLED
         /\ StatusSnapshot(executor[t].job_id)'.result = NoValue]_vars

\* The job is in the table, queued or in progress.
Cancellable(job_id) ==
  /\ job_id \in DOMAIN jobs
  /\ job_dicts[jobs[job_id]].status \in {JOB_STATUS_QUEUED, JOB_STATUS_IN_PROGRESS}

\* C4: cancel_job returns true only for a job that is in the table with
\* status queued or in_progress; for any other id it returns false and leaves
\* the job table, the job records, the queue lists and the result store alone.
C4_CancelReturn ==
  [][\A job_id \in JobIdInputs :
       cancel_job(job_id) =>
         /\ ret'.value = TRUE => Cancellable(job_id)
         /\ ~Cancellable(job_id) =>
              /\ ret'.value = FALSE
              /\ UNCHANGED <<jobs, job_dicts, queues, results>>]_vars

\* A cancel_job call on a finished job has just returned.
C4_Witness ==
  /\ ret.op = "cancel_job"
  /\ ret.value = FALSE
  /\ ret.job_id \in DOMAIN jobs
  /\ job_dicts[jobs[ret.job_id]].status = JOB_STATUS_COMPLETED

\* C5: under fair scheduling of the pool threads and terminating task bodies,
\* every enqueued job reaches completed or failed, unless it is cancelled on
\* the way, however many jobs are waiting for a thread.
C5_EventuallyFinished ==
  \A j \in 1..MaxPoolJobs :
    (Len(job_dicts) >= j) ~>
      (Len(job_dicts) >= j /\ job_dicts[j].status \in TerminalStatuses)

\* More jobs than pool threads were enqueued, none was cancelled (cancel_job
\* is the only operation that takes an id out of a queue list here), and all
\* of them finished, some by returning and some by raising.
C5_Witness ==
  /\ Len(job_dicts) > max_workers
  /\ Len(queues[QUEUE_DOCS]) = Len(job_dicts)
  /\ \A j \in JobRefs : job_dicts[j].status \in {JOB_STATUS_COMPLETED, JOB_STATUS_FAILED}
  /\ \E j \in JobRefs : job_dicts[j].status = JOB_STATUS_COMPLETED
  /\ \E j \in JobRefs : job_dicts[j].status = JOB_STATUS_FAILED

AllSlotsBusy == Cardinality(Running(executor)) >= 3

\* C6: never more than 3 task bodies execute; an enqueue_job call made while
\* 3 bodies execute returns the id of a record that is in the table with
\* status queued; while 3 bodies execute no waiting call starts and no queued
\* job becomes in_progress; and every waiting call is started eventually.
\* (With generated ids the t-th call is for the t-th record.)
C6_BoundedPool ==
  /\ [](Cardinality(Running(executor)) <= 3)
  /\ [][AllSlotsBusy /\ Len(job_dicts') > Len(job_dicts) =>
          /\ ret'.op = "enqueue_job"
          /\ ret'.job_id \in DOMAIN jobs'
          /\ job_dicts'[jobs'[ret'.job_id]].status = JOB_STATUS_QUEUED
          /\ Len(executor') \in Pending(executor')]_vars
  /\ [][AllSlotsBusy =>
          \A t \in Pending(executor) :
            /\ t \in Pending(executor')
            /\ job_dicts[t].status = JOB_STATUS_QUEUED
                 => job_dicts'[t].status \in {JOB_STATUS_QUEUED, JOB_STATUS_CANCELLED}]_vars
  /\ \A t \in 1..MaxPoolJobs :
       (t \in Pending(executor)) ~> (t \in DOMAIN executor /\ t \notin Pending(executor))

\* A job was just enqueued while every pool thread runs a body.
C6_Witness ==
  /\ Cardinality(Running(executor)) = 3
  /\ ret.op = "enqueue_job"
  /\ ret.job_id \in DOMAIN jobs
  /\ job_dicts[jobs[ret.job_id]].status = JOB_STATUS_QUEUED
  /\ Len(executor) \in Pending(executor)

\* C7: the step in which process_job handles a raising body, for a job that
\* is in the table and not cancelled, leaves the record failed with an error
\* and an end timestamp and no result, returns nothing to any caller, and
\* gives the pool thread back; a failed record is never written again.
C7_RaiseHandled ==
  [][/\ \A j \in JobRefs :
          job_dicts[j].status = JOB_STATUS_FAILED => job_dicts'[j] = job_dicts[j]
     /\ \A t \in 1..Len(executor) :
       /\ ProcessJobRaise(t)
       /\ executor[t].job_id \in DOMAIN jobs
       /\ job_dicts[executor[t].job].status = JOB_STATUS_IN_PROGRESS
       => /\ job_dicts'[executor[t].job].status = JOB_STATUS_FAILED
          /\ job_dicts'[executor[t].job].error # NoValue
          /\ job_dicts'[executor[t].job].ended_at # NoTime
          /\ job_dicts'[executor[t].job].result = NoValue
          /\ ret' = ret
          /\ Running(executor') = Running(executor) \ {t}]_vars

\* A body raised, its job is failed, and a job enqueued after it completed.
C7_Witness ==
  \E i, j \in JobRefs :
    /\ i < j
    /\ job_dicts[i].status = JOB_STATUS_FAILED
    /\ job_dicts[i].error # NoValue
    /\ job_dicts[j].status = JOB_STATUS_COMPLETED

\* C8: a get_job_status call changes nothing but its own return value; for an
\* id that is not in the table it returns the not_found sentinel, for an id in
\* the table the record's status, timestamps, result and error.
C8_StatusSnapshot ==
  [][\A job_id \in JobIdInputs :
       get_job_status(job_id) =>
         /\ UNCHANGED <<jobs, job_dicts, queues, results, executor>>
         /\ ret'.value.status # "error"
         /\ job_id \notin DOMAIN jobs => ret'.value.status = "not_found"
         /\ job_id \in DOMAIN jobs =>
              LET job == job_dicts[jobs[job_id]]
              IN /\ ret'.value.status = job.status
                 /\ ret'.value.enqueued_at = job.enqueued_at
                 /\ ret'.value.started_at = job.started_at
                 /\ ret'.value.ended_at = job.ended_at
                 /\ ret'.value.result = job.result
                 /\ ret'.value.error = job.error]_vars

\* get_job_status was called on an id that cleanup had deleted.
C8_Witness ==
  /\ ret.op = "get_job_status"
  /\ ret.job_id \in JobRefs
  /\ ret.job_id \notin DOMAIN jobs
  /\ ret.value.status = "not_found"

\* The entry last stored under key has not expired.
Unexpired(key) ==
  /\ key \in DOMAIN stored
  /\ clock < stored[key].at + stored[key].expiration

\* C13: whatever store_result, get_result, clean_old_jobs and the clock did
\* before, a get_result(key) call returns the value most recently stored
\* under key when the time is before that entry's expiry, and None when the
\* entry has expired or nothing was ever stored under key.
C13_ResultLifetime ==
  [][\A key \in StoreKeys :
       get_result(key) =>
         ret'.value = IF Unexpired(key) THEN stored[key].result ELSE NoValue]_vars

\* get_result answered None for a key whose entry expires at this very time.
C13_Witness ==
  /\ ret.op = "get_result"
  /\ ret.value = NoValue
  /\ ret.key \in DOMAIN stored
  /\ clock = stored[ret.key].at + stored[ret.key].expiration

\* get_result returned the second value stored under a key, at a time when
\* the first entry would have expired.
C13_WitnessRestored ==
  /\ ret.op = "get_result"
  /\ ret.value = "r2"
  /\ stored[ret.key].at > 0
  /\ clock >= HalfWindow + stored[ret.key].at

\* --------------------------------------------------------- cleanup properties
\* C24: every id in a queue list is the id of a record in the job table,
\* also when callers name their jobs and name two of them alike.
C24_QueueIdsInTable ==
  \A q \in DOMAIN queues : \A i \in 1..Len(queues[q]) : queues[q][i] \in DOMAIN jobs

\* The job is finished and its end lies more than `days` days back.
OlderThan(job_id, days) ==
  /\ job_dicts[jobs[job_id]].status \in
       {JOB_STATUS_COMPLETED, JOB_STATUS_FAILED, JOB_STATUS_CANCELLED}
  /\ job_dicts[jobs[job_id]].ended_at # NoTime
  /\ clock - job_dicts[jobs[job_id]].ended_at > days * 86400

\* C25: clean_old_jobs deletes exactly the records of finished jobs whose end
\* is older than the retention window and returns their count; a job that is
\* queued, in progress, or ended within the window stays as it was.
C25_CleanExactlyOld ==
  [][\A days \in DaysInputs :
       clean_old_jobs(days) =>
         /\ DOMAIN jobs' = {job_id \in DOMAIN jobs : ~OlderThan(job_id, days)}
         /\ ret'.value = Cardinality({job_id \in DOMAIN jobs : OlderThan(job_id, days)})
         /\ \A job_id \in DOMAIN jobs :
              \/ job_dicts[jobs[job_id]].status \in {JOB_STATUS_QUEUED, JOB_STATUS_IN_PROGRESS}
              \/ clock - job_dicts[jobs[job_id]].ended_at <= days * 86400
              => /\ job_id \in DOMAIN jobs'
                 /\ job_dicts'[jobs'[job_id]] = job_dicts[jobs[job_id]]]_vars

\* A sweep has deleted one job and left a job that ended within the window.
C25_Witness ==
  /\ ret.op = "clean_old_jobs"
  /\ ret.value = 1
  /\ \E job_id \in DOMAIN jobs :
       /\ job_dicts[jobs[job_id]].status \in TerminalStatuses
       /\ job_dicts[jobs[job_id]].ended_at = clock

\* A sweep has left a job that ended exactly one window ago.
C25_WitnessAtWindow ==
  /\ ret.op = "clean_old_jobs"
  /\ ret.value = 0
  /\ clock = JOB_EXPIRATION
  /\ \E job_id \in DOMAIN jobs :
       /\ job_dicts[jobs[job_id]].status \in TerminalStatuses
       /\ job_dicts[jobs[job_id]].ended_at = 0

\* A sweep has deleted one job and left a job that is in progress.
C25_WitnessRunning ==
  /\ ret.op = "clean_old_jobs"
  /\ ret.value = 1
  /\ \E job_id \in DOMAIN jobs : job_dicts[jobs[job_id]].status = JOB_STATUS_IN_PROGRESS

\* ------------------------------------------------ documentation job properties
\* C14: once DELETE /scrape answered cancelled for a document, the status
\* GET /scrape-status answers with for it is cancelled, whatever the cancelled
\* run writes afterwards.
C14_CancelledDocStays ==
  \A url \in cancelled_docs : StatusAnswer(url).status = "cancelled"

\* C15: after the job that runs the crawl was cancelled, the crawl loop
\* starts no page fetch.
C15_NoFetchAfterCancel ==
  [][cancelled_docs # {} => fetched' = fetched]_vars

\* ---------------------------------------------------------- embedding properties
\* C16: at most one embedding computation executes at any time, however many
\* coroutines wait for one, and every submitted call is eventually served.
C16_OneEmbedding ==
  /\ [](Cardinality(EmbedRunning(embed_executor)) <= 1)
  /\ \A i \in 1..MaxEmbedCalls :
       (i \in DOMAIN embed_executor) ~>
         (i \in DOMAIN embed_executor /\ embed_executor[i].pc = "done")

\* The coroutines of all three pool threads wait for an embedding: one
\* computation executes, two calls of both kinds wait for the thread.
C16_Witness ==
  /\ \A w \in 1..max_workers : embed_pc[w] = "awaiting"
  /\ Cardinality(EmbedRunning(embed_executor)) = 1
  /\ Cardinality(EmbedPending(embed_executor)) = 2
  /\ \E i, j \in EmbedPending(embed_executor) :
       embed_executor[i].func # embed_executor[j].func

\* --------------------------------------------------------- chunk_text properties
\* The sentences of the text's paragraphs.
SentenceSet(text) ==
  UNION { {Sentences(Paragraphs(text)[i])[k] : k \in 1..Len(Sentences(Paragraphs(text)[i]))} :
          i \in 1..Len(Paragraphs(text)) }

\* C19: every chunk chunk_text returns is at most max_length long, unless it
\* is one single sentence of the text that is itself longer than max_length.
C19_ChunkLength ==
  chunk_args # <<>> =>
    \A i \in 1..Len(chunks) :
      \/ Len(chunks[i]) <= chunk_args.max_length
      \/ chunks[i] \in SentenceSet(chunk_args.text)

\* A text whose chunks are a sentence longer than max_length, cut out of a
\* paragraph of several sentences, and a chunk within the length.
C19_Witness ==
  /\ chunk_args # <<>>
  /\ chunk_args.max_length >= 1
  /\ \E i, j \in 1..Len(chunks) :
       /\ Len(chunks[i]) > chunk_args.max_length
       /\ chunks[i] \notin {Paragraphs(chunk_args.text)[k] :
                              k \in 1..Len(Paragraphs(chunk_args.text))}
       /\ Len(chunks[j]) <= chunk_args.max_length

\* A chunk made by joining two sentences of a paragraph that is too long.
C19_WitnessJoin ==
  /\ chunk_args # <<>>
  /\ Len(Paragraphs(chunk_args.text)) = 1
  /\ \E i \in 1..Len(chunks) :
       /\ chunks[i] \notin SentenceSet(chunk_args.text)
       /\ Len(chunks[i]) = chunk_args.max_length

RECURSIVE Flatten(_)
Flatten(ss) == IF ss = <<>> THEN <<>> ELSE Head(ss) \o Flatten(Tail(ss))

\* The text without its whitespace.
NoSpace(s) == SelectSeq(s, LAMBDA c : c \notin Whitespace)

\* C20: the chunks, put one after the other in the order returned, are the
\* text up to whitespace: nothing is dropped, repeated or moved.
C20_ChunksRebuildText ==
  chunk_args # <<>> => NoSpace(Flatten(chunks)) = NoSpace(chunk_args.text)

\* A text of two lines with both letters, returned as more than one chunk,
\* one of them a join.
C20_Witness ==
  /\ chunk_args # <<>>
  /\ Len(chunks) >= 2
  /\ Len(Paragraphs(chunk_args.text)) >= 2
  /\ \E i, j \in 1..Len(chunk_args.text) :
       chunk_args.text[i] = "a" /\ chunk_args.text[j] = "b"
  /\ \E i \in 1..Len(chunks) : chunks[i] \notin SentenceSet(chunk_args.text)
  /\ Len(Flatten(chunks)) < Len(chunk_args.text)

\* ----------------------------------------------------- similarity search properties
\* C21: search_by_similarity returns at most top_k results, each result's
\* similarity is at least the next one's, and no chunk left out is more
\* similar to the query than a returned one.
C21_TopKSorted ==
  sim_args # <<>> =>
    LET res == sim_results.results
        top == sim_results.top_indices
        left == (1..Len(sim_args.embeddings)) \ {top[i] : i \in 1..Len(top)}
    IN /\ Len(res) <= sim_args.top_k
       /\ \A i \in 1..(Len(res) - 1) : SimLeq(res[i + 1].similarity, res[i].similarity)
       /\ Len(res) = Len(top)
       /\ \A i \in 1..Len(res) :
            /\ res[i].similarity =
                 cosine_similarity(sim_args.query_embedding, sim_args.embeddings[top[i]])
            /\ Len(sim_args.embeddings) = Len(sim_args.texts) =>
                 \A j \in left :
                   SimLeq(cosine_similarity(sim_args.query_embedding, sim_args.embeddings[j]),
                          res[i].similarity)

\* Three chunks of three different similarities, one of them negative, and
\* top_k = 2: the two most similar are returned and the third is left out.
C21_Witness ==
  /\ sim_args # <<>>
  /\ sim_args.top_k = 2
  /\ Len(sim_args.embeddings) = 3
  /\ Len(sim_results.results) = 2
  /\ ~SimLeq(sim_results.results[1].similarity, sim_results.results[2].similarity)
  /\ \E j \in 1..3 :
       /\ j \notin {sim_results.top_indices[1], sim_results.top_indices[2]}
       /\ cosine_similarity(sim_args.query_embedding, sim_args.embeddings[j]).n < 0
       /\ ~SimLeq(sim_results.results[2].similarity,
                  cosine_similarity(sim_args.query_embedding, sim_args.embeddings[j]))

\* ------------------------------------------------ documentation job properties
\* The fields a finished one-page run reports (percentages are in hundredths).
OnePageDone(r) ==
  /\ r.sections_analyzed = 1
  /\ r.total_pages = 1
  /\ r.completion_percentage = 10000
  /\ r.status = "completed"

C22_KeywordFallback ==
  [][\A url \in SearchUrls :
       /\ search_ret' # search_ret
       /\ search_ret'.url = url
       /\ (NoVectorEntries(url) \/ ~search_ret'.query_ok)
       => search_ret'.results \in search_by_keywords(url, search_ret'.query)]_vars

\* ----------------------------------------------------------- crawl properties
NormA == normalize_url(UrlA)
NormB == normalize_url(UrlB)
NormC == normalize_url(UrlC)

\* The site of the example: A links to B and C, B links back to A, C to nothing.
ExampleSite ==
  /\ crawl_args.base_url = UrlA
  /\ crawl_args.excluded_paths = <<>>
  /\ crawl_args.max_depth >= 1
  /\ NormA \in DOMAIN pages /\ pages[NormA].links = <<UrlB, UrlC>>
  /\ NormB \in DOMAIN pages /\ pages[NormB].links = <<UrlA>>
  /\ NormC \in DOMAIN pages /\ pages[NormC].links = <<>>

\* C9: no two fetches of one crawl are for the same normalized url, the
\* visited set never holds more than 50 normalized urls, and the crawl of the
\* example site ends with visited = {A, B, C}.
C9_VisitOnce ==
  /\ \A i, j \in 1..Len(fetched) :
       i # j => normalize_url(fetched[i]) # normalize_url(fetched[j])
  /\ Cardinality(visited) <= 50
  /\ crawl_pc = "done" /\ ExampleSite => visited = {NormA, NormB, NormC}

\* The crawl of the example site, cyclic link followed, has ended.
C9_Witness ==
  /\ crawl_pc = "done"
  /\ ExampleSite
  /\ crawl_args.max_depth = 2
  /\ Len(fetched) = 3

\* The crawl of the wide site stopped at the page cap with entries pending.
C9_WitnessCap ==
  /\ crawl_pc = "done"
  /\ Cardinality(visited) = MAX_PAGES
  /\ to_visit # <<>>

\* The entry at the head of the frontier matches an exclusion pattern.
HeadExcluded ==
  /\ crawl_pc = "loop"
  /\ LoopCondition
  /\ Excluded(Head(to_visit)[1], crawl_args.excluded_paths)

\* C10: the pass of the loop that pops an entry whose raw url matches an
\* exclusion pattern fetches nothing and leaves the visited set, the page
\* count and the published status alone; no fetched url matches a pattern,
\* the visited set holds the normalized forms of the fetched urls only, and
\* sections_analyzed counts exactly those.
C10_ExcludedSkipped ==
  /\ [][HeadExcluded =>
          /\ fetched' = fetched
          /\ visited' = visited
          /\ pages_count' = pages_count
          /\ doc_status' = doc_status
          /\ crawl_pc' = "loop"]_vars
  /\ [](crawl_pc # "idle" =>
          /\ \A i \in 1..Len(fetched) : ~Excluded(fetched[i], crawl_args.excluded_paths)
          /\ visited = {normalize_url(fetched[i]) : i \in 1..Len(fetched)}
          /\ pages_count = Len(fetched)
          /\ doc_status[DocId].sections_analyzed = Cardinality(visited))

\* A fetched page linked to a url that matches a pattern; the crawl went on to
\* the end without visiting it, although the link was within the depth limit.
C10_Witness ==
  /\ crawl_pc = "done"
  /\ crawl_args.max_depth >= 1
  /\ NormA \in DOMAIN pages
  /\ \E i \in 1..Len(pages[NormA].links) :
       /\ Excluded(pages[NormA].links[i], crawl_args.excluded_paths)
       /\ normalize_url(pages[NormA].links[i]) \notin visited

\* The fetch of the seed page was attempted and raised.
SeedFetchFailed ==
  /\ crawl_pc \in {"loop", "done"}
  /\ normalize_url(crawl_args.base_url) \in visited
  /\ normalize_url(crawl_args.base_url) \notin DOMAIN pages

\* C11: when the seed page cannot be fetched, crawl_documentation does not
\* return a page map (it ends with a failure that reaches its caller).
C11_SeedFailurePropagates == SeedFetchFailed => crawl_pc # "done"

\* The urls whose fetch raised: attempted, not in flight, and without a page.
FailedFetches ==
  {i \in 1..Len(fetched) :
     /\ normalize_url(fetched[i]) \notin DOMAIN pages
     /\ ~(crawl_pc = "fetch" /\ i = Len(fetched))}

StatusUrls == {UrlA, UrlA0, UrlB, UrlBs, UrlBq, UrlD80}

\* C17: two urls with the same normalized form have the same document
\* identifier: once a status was written for one of them, the status call
\* with the other finds that status.
C17_SameDocId ==
  \A u1, u2 \in StatusUrls :
    normalize_url(u1) = normalize_url(u2) /\ generate_id(u1) \in DOMAIN doc_status =>
      /\ generate_id(u2) = generate_id(u1)
      /\ get_documentation_status(u2) = doc_status[generate_id(u1)]

\* C18: normalizing a normalized url again gives the same key, for every
\* key of the visited set and of the page map.
C18_NormalizeIdempotent ==
  \A k \in visited \cup DOMAIN pages : normalize_url(urlparse(k)) = k


\* ------------------------------------------------------- crawl progress properties
\* C26: when the loop is through with a visited page, fetched or failed and
\* at any depth, the document status holds sections_analyzed = the number of
\* visited pages and total_pages = visited pages + pending frontier entries.
C26_ProgressAfterPage ==
  [][crawl_pc = "fetch" /\ crawl_pc' # "fetch" =>
       /\ doc_status'[DocId].sections_analyzed = Cardinality(visited')
       /\ doc_status'[DocId].total_pages = Cardinality(visited') + Len(to_visit')]_vars

\* C27: during a crawl, the final write included, total_pages never goes down.
C27_TotalPagesMonotone ==
  [][crawl_pc # "idle" =>
       doc_status'[DocId].total_pages >= doc_status[DocId].total_pages]_vars


\* C28: on a finite site, with cycles and failing pages, the crawl loop is
\* left, and it is left with an empty frontier or with MAX_PAGES visited pages.
C28_CrawlTerminates ==
  /\ (crawl_pc = "loop") ~> (crawl_pc = "done")
  /\ [](crawl_pc = "done" => to_visit = <<>> \/ Cardinality(visited) >= MAX_PAGES)

\* A crawl has ended on an empty frontier after a failed fetch and a page
\* that links back to a visited page.
C28_Witness ==
  /\ crawl_pc = "done"
  /\ to_visit = <<>>
  /\ Len(fetched) > Cardinality(DOMAIN pages)
  /\ \E k \in DOMAIN pages : \E i \in 1..Len(pages[k].links) :
       /\ normalize_url(pages[k].links[i]) \in DOMAIN pages
       /\ \E j \in 1..Len(pages[normalize_url(pages[k].links[i])].links) :
            normalize_url(pages[normalize_url(pages[k].links[i])].links[j]) = k

\* A crawl has ended at the cap with entries still pending.
C28_WitnessCap ==
  /\ crawl_pc = "done"
  /\ Cardinality(visited) = MAX_PAGES
  /\ Len(to_visit) >= 2


\* ------------------------------------------------------ crawl frontier properties
\* C29: every frontier entry and every fetched page has a depth of at most
\* max_depth and the host of the seed; links are appended, one deeper than
\* their page, only for a page above max_depth; with max_depth = 0 the seed
\* is the only page fetched.
C29_DepthAndHost ==
  [][crawl_pc' # "idle" =>
       /\ \A i \in 1..Len(to_visit') :
            /\ to_visit'[i][2] <= crawl_args'.max_depth
            /\ get_domain(to_visit'[i][1]) = get_domain(crawl_args'.base_url)
       /\ current' # <<>> => current'[2] <= crawl_args'.max_depth
       /\ \A i \in 1..Len(fetched') :
            get_domain(fetched'[i]) = get_domain(crawl_args'.base_url)
       /\ crawl_pc = "fetch" /\ Len(to_visit') > Len(to_visit) =>
            /\ current[2] < crawl_args.max_depth
            /\ \A i \in (Len(to_visit) + 1)..Len(to_visit') :
                 to_visit'[i][2] = current[2] + 1
       /\ crawl_args'.max_depth = 0 => fetched' \in {<<>>, <<crawl_args'.base_url>>}]_vars

\* A page at depth max_depth was fetched and a link of it to a page not yet
\* visited was left out of the frontier.
C29_Witness ==
  /\ crawl_pc = "sleep"
  /\ crawl_args.max_depth >= 1
  /\ current[2] = crawl_args.max_depth
  /\ \E i \in 1..Len(pages[normalize_url(current[1])].links) :
       /\ normalize_url(pages[normalize_url(current[1])].links[i]) \notin visited
       /\ \A j \in 1..Len(to_visit) :
            to_visit[j][1] # pages[normalize_url(current[1])].links[i]

\* A crawl with max_depth = 0 has ended: the seed had links, and it alone
\* was fetched.
C29_WitnessSeedOnly ==
  /\ crawl_pc = "done"
  /\ crawl_args.max_depth = 0
  /\ fetched = <<crawl_args.base_url>>
  /\ normalize_url(crawl_args.base_url) \in DOMAIN pages
  /\ pages[normalize_url(crawl_args.base_url)].links # <<>>

\* C30: the pending list is a queue: entries leave at its head and come in
\* at its end, the page fetched is the head entry, and the depth of the
\* pages fetched never goes down.
C30_FifoOrder ==
  [][crawl_pc # "idle" =>
       /\ to_visit' # to_visit =>
            \/ to_visit # <<>> /\ to_visit' = Tail(to_visit)
            \/ /\ Len(to_visit') > Len(to_visit)
               /\ SubSeq(to_visit', 1, Len(to_visit)) = to_visit
       /\ Len(fetched') > Len(fetched) =>
            /\ to_visit # <<>>
            /\ current' = Head(to_visit)
            /\ fetched' = Append(fetched, Head(to_visit)[1])
            /\ current # <<>> => current'[2] >= current[2]]_vars

\* A page at depth 2 is being fetched, after pages at depths 0 and 1, while
\* entries appended after it wait.
C30_Witness ==
  /\ crawl_pc = "fetch"
  /\ current[2] = 2
  /\ Len(fetched) >= 3
  /\ to_visit # <<>>


\* C31: between any two consecutive page fetches of one crawl the politeness
\* delay is observed, also when the earlier of the two fetches failed: when
\* fetch_documentation is called again, an asyncio.sleep has returned since
\* the previous call.
C31_DelayBetweenFetches ==
  [][Len(fetched') > Len(fetched) /\ fetched # <<>> => InList(Len(fetched), sleeps)]_vars

\* ------------------------------------------------------------ lock properties
\* C32: every write to the job table, to a job record's fields and to a queue
\* list is made by a thread that holds the lock, inside its `with lock:`
\* block, and no worker holds the lock while it executes a task body.
C32_LockDiscipline ==
  [][/\ <<jobs, job_dicts, queues>>' # <<jobs, job_dicts, queues>> =>
          \E th \in LockThreads : /\ Holds(th)
                                  /\ lock' = lock
                                  /\ At(th) = "block"
                                  /\ lock_pc'[th] # lock_pc[th]
                                  /\ \A other \in DOMAIN lock_pc \ {th} :
                                       lock_pc'[other] = lock_pc[other]
     /\ \A th \in DOMAIN lock_pc' :
          lock_pc'[th].at = "run_async_task" => lock' # <<th>>]_vars

\* A worker is inside a task body while a caller, holding the lock, has just
\* cancelled that worker's job.
C32_Witness ==
  \E th \in DOMAIN lock_pc, c \in Callers :
    /\ lock_pc[th].at = "run_async_task"
    /\ Holds(c)
    /\ At(c) = "release"
    /\ lock_pc[c].op = "cancel_job"
    /\ lock_pc[c].value
    /\ lock_pc[c].job_id = lock_pc[th].job_id

\* Two workers wait for the lock while a third thread holds it.
C32_WitnessContention ==
  \E a, b \in DOMAIN lock_pc :
    /\ a # b
    /\ lock_pc[a].at = "acquire"
    /\ lock_pc[b].at = "acquire"
    /\ lock # <<>>

\* ------------------------------------------------------ tie order properties
\* C33: chunks of equal similarity to the query are returned in their
\* original order, the lower chunk index first, and when a tie straddles the
\* cut at top_k the chunks of lower index are the ones returned.
C33_TiesInChunkOrder ==
  (sim_args # <<>> /\ Len(sim_args.embeddings) = Len(sim_args.texts)) =>
    LET res == sim_results.results
        top == sim_results.top_indices
        left == (1..Len(sim_args.embeddings)) \ {top[i] : i \in 1..Len(top)}
        sim(j) == cosine_similarity(sim_args.query_embedding, sim_args.embeddings[j])
    IN /\ \A i \in 1..(Len(top) - 1) :
            (SimLeq(sim(top[i]), sim(top[i + 1])) /\ SimLeq(sim(top[i + 1]), sim(top[i])))
              => top[i] < top[i + 1]
       /\ \A i \in 1..Len(top) : \A j \in left :
            (SimLeq(sim(top[i]), sim(j)) /\ SimLeq(sim(j), sim(top[i]))) => top[i] < j

\* ------------------------------------------------------------ query properties
\* C34: when the search fell back to keywords and found no page, the answer
\* of query_documentation has confidence 0.5, also for a document that is
\* processed and cached; otherwise its confidence is the mean similarity of
\* the chunks the search retrieved, times 0.9.
C34_Confidence ==
  (search_ret # <<>> /\ ~search_ret.raised) =>
    LET found == search_ret.found.chunks
    IN IF search_ret.found.keyword /\ found = <<>>
       THEN search_ret.confidence.n * 2 = search_ret.confidence.d
       ELSE /\ found # <<>>
            /\ search_ret.confidence.n * SumSimilarity(found).d * Len(found) * 10
                 = SumSimilarity(found).n * 9 * search_ret.confidence.d

\* ------------------------------------------------------- timestamp properties
\* C35: in the job table, a queued job has no start and no end timestamp,
\* a job in progress has a start timestamp and no end timestamp, and a
\* completed, failed or cancelled job has an end timestamp.
C35_TimestampsMatchStatus ==
  \A job_id \in DOMAIN jobs :
    LET job == job_dicts[jobs[job_id]]
    IN /\ job.status = JOB_STATUS_QUEUED =>
            job.started_at = NoTime /\ job.ended_at = NoTime
       /\ job.status = JOB_STATUS_IN_PROGRESS =>
            job.started_at # NoTime /\ job.ended_at = NoTime
       /\ job.status \in TerminalStatuses => job.ended_at # NoTime

\* C36: a job that was cancelled while it was still queued never has its
\* task body executed: no pool thread enters the body of a call whose job
\* record is cancelled.
C36_CancelledNeverRuns ==
  [][\A t \in 1..Len(executor) :
       (executor[t].pc = "pending" /\ executor'[t].pc = "body")
         => job_dicts[executor'[t].job].status # JOB_STATUS_CANCELLED]_vars

\* ------------------------------------------------ documentation restart properties
\* C37: for any url at most one process_doc_task body is executing at any
\* time: POST /scrape enqueues no second job for a url while the task of an
\* earlier job for it is still running, also after DELETE /scrape cancelled
\* the earlier job.
C37_OneBodyPerUrl ==
  \A url \in DocUrls : Cardinality(BodiesOf(url)) <= 1

\* ------------------------------------------------------- queue list properties
\* C38: each queue list holds exactly the ids of the jobs of that queue whose
\* status is queued; the ids of jobs in progress, completed, failed,
\* cancelled or deleted are in no queue list.
C38_QueueListsHoldQueued ==
  \A q \in DOMAIN queues :
    {queues[q][i] : i \in 1..Len(queues[q])}
      = {job_id \in DOMAIN jobs : /\ job_dicts[jobs[job_id]].queue = q
                                  /\ job_dicts[jobs[job_id]].status = JOB_STATUS_QUEUED}

\* ------------------------------------------------ documentation progress properties
\* C39: within one processing run of a document, from the initial in_progress
\* status to completed, the completion_percentage written to the document
\* status never decreases from one write to the next, across the crawl, the
\* summary and the indexing phases.
C39_PercentageMonotone ==
  [][\A d \in DOMAIN doc_status :
       (doc_pc # "idle" /\ d \in DOMAIN doc_status')
         => doc_status'[d].completion_percentage >= doc_status[d].completion_percentage]_vars

\* ------------------------------------------------------ stored result properties
\* C40: while a completed job whose result is a stored-key reference is in
\* the job table, get_result on that key returns the result this job
\* produced: the entry has not expired and holds no other job's result.
C40_StoredResultKept ==
  \A job_id \in DOMAIN jobs :
    LET job == job_dicts[jobs[job_id]]
    IN job.status = JOB_STATUS_COMPLETED =>
         /\ ResultFound(job.result.stored_key)
         /\ results[job.result.stored_key].result = doc_task[job_id].result
====
